---- MODULE Spec2Model ----
(***************************************************************************)
(* KIConstraint: the constraint-construction pipeline of the KiCad plugin. *)
(* Shapes, pads and dimensions are mapped into a solver sketch, user       *)
(* constraints are parsed from dimension suffixes and applied, the sketch  *)
(* is solved and the solved coordinates are written back.                  *)
(*                                                                         *)
(* Text is a sequence of one-character strings.  Lengths are integers:     *)
(* source fields hold nanometres, sketch parameters hold millimetres, and  *)
(* the boards considered lie on the whole-millimetre grid, so that the     *)
(* float arithmetic of the source is exact integer arithmetic here.        *)
(***************************************************************************)
EXTENDS Integers, Sequences, FiniteSets, TLC

VARIABLES
    suffix,       \* parse_suffix: the text handed to the parser
    presult,      \* parse_suffix: what the call returned or raised
    shapes,       \* the board's graphic primitives (source objects)
    pads,         \* the board's pads (source objects)
    dims,         \* the board's dimensions (source objects)
    input,        \* the board as it was read, before any writeback
    tol,          \* the tolerance handed to both dimension passes
    sketch,       \* the solver sketch: its entities and constraints
    shape_maps,   \* the mapped shapes, in the order they were created
    pad_maps,     \* the mapped pads, in the order they were created
    registry,     \* the DimensionMapping of pass 1
    pc,           \* what the caller has done so far
    pass2,        \* the last run of apply_dimension_constraints
    direct,       \* the last direct call of a ConstraintSpec method
    results,      \* the SolveResults returned so far (ok flags)
    mapcall,      \* the last direct call of a mapper or of a pad's write_back
    owners,       \* the Sketch objects made so far, and who made what is held
    wb            \* the last writeback call and what it returned

boardVars == <<shapes, pads, dims, input>>

mapVars == <<shape_maps, pad_maps, registry>>

vars == <<suffix, presult, shapes, pads, dims, input, tol, sketch, shape_maps,
          pad_maps, registry, pc, pass2, direct, results, mapcall, owners,
          wb>>

(***************************************************************************)
(* Bounds of the model.                                                    *)
(***************************************************************************)
MaxLen == 5

MaxCalls == 2

MaxDims == 2

MaxUser == 2

MaxSolves == 2

\* the largest coordinate, in mm, a solve moves a point to
MaxCoord == 3

\* calls of map_shape and map_pad on one sketch
MaxMaps == 2

(***************************************************************************)
(* Python str helpers, as dimensions.py uses them.                         *)
(***************************************************************************)
Whitespace == {" ", "\t", "\n"}

Digits == {"0", "1", "2", "3", "4", "5", "6", "7", "8", "9"}

Letters ==
    {"a", "b", "c", "d", "e", "f", "g", "h", "i", "j", "k", "l", "m",
     "n", "o", "p", "q", "r", "s", "t", "u", "v", "w", "x", "y", "z",
     "A", "B", "C", "D", "E", "F", "G", "H", "I", "J", "K", "L", "M",
     "N", "O", "P", "Q", "R", "S", "T", "U", "V", "W", "X", "Y", "Z"}

\* the regular expression class \w
WordChars == Letters \cup Digits \cup {"_"}

RECURSIVE lstrip(_)
lstrip(s) ==
    IF s # <<>> /\ Head(s) \in Whitespace THEN lstrip(Tail(s)) ELSE s

RECURSIVE rstrip(_)
rstrip(s) ==
    IF s # <<>> /\ s[Len(s)] \in Whitespace
    THEN rstrip(SubSeq(s, 1, Len(s) - 1))
    ELSE s

\* str.strip()
strip(s) == rstrip(lstrip(s))

\* index of the first sep in s, 0 when there is none
find(s, sep) ==
    IF \E i \in 1..Len(s) : s[i] = sep
    THEN CHOOSE i \in 1..Len(s) :
            s[i] = sep /\ \A j \in 1..(i - 1) : s[j] # sep
    ELSE 0

RECURSIVE split(_, _)
\* str.split(sep)
split(s, sep) ==
    LET i == find(s, sep)
    IN  IF i = 0
        THEN <<s>>
        ELSE <<SubSeq(s, 1, i - 1)>> \o split(SubSeq(s, i + 1, Len(s)), sep)

\* str.split(sep, 1)
split1(s, sep) ==
    LET i == find(s, sep)
    IN  IF i = 0
        THEN <<s>>
        ELSE <<SubSeq(s, 1, i - 1), SubSeq(s, i + 1, Len(s))>>

\* the concatenation of a list of lists
RECURSIVE Flatten(_)
Flatten(ss) == IF ss = <<>> THEN <<>> ELSE Head(ss) \o Flatten(Tail(ss))

(***************************************************************************)
(* Suffix parsing (dimensions.py, "Suffix parsing").                       *)
(***************************************************************************)
AllDigits(s) == s # <<>> /\ \A i \in 1..Len(s) : s[i] \in Digits

DigitValue(c) ==
    CASE c = "0" -> 0 [] c = "1" -> 1 [] c = "2" -> 2 [] c = "3" -> 3
      [] c = "4" -> 4 [] c = "5" -> 5 [] c = "6" -> 6 [] c = "7" -> 7
      [] c = "8" -> 8 [] c = "9" -> 9

RECURSIVE DigitsValue(_)
DigitsValue(s) ==
    IF s = <<>> THEN 0
    ELSE 10 * DigitsValue(SubSeq(s, 1, Len(s) - 1)) + DigitValue(s[Len(s)])

RECURSIVE StripZeros(_)
StripZeros(s) ==
    IF s # <<>> /\ s[Len(s)] = "0"
    THEN StripZeros(SubSeq(s, 1, Len(s) - 1))
    ELSE s

\* float(text) of a decimal literal, kept exact: the value is n / 10^e
float(s) ==
    LET k == find(s, ".")
        ip == IF k = 0 THEN s ELSE SubSeq(s, 1, k - 1)
        fp == IF k = 0 THEN <<>> ELSE StripZeros(SubSeq(s, k + 1, Len(s)))
    IN  [n |-> DigitsValue(ip \o fp), e |-> Len(fp)]

NoValue == [n |-> 0, e |-> 0]

\* \d+(?:\.\d+)?
IsNumber(s) ==
    \/ AllDigits(s)
    \/ \E k \in 1..Len(s) :
          /\ s[k] = "."
          /\ AllDigits(SubSeq(s, 1, k - 1))
          /\ AllDigits(SubSeq(s, k + 1, Len(s)))

\* _DISTANCE_RE.match(token): the captured number, or <<>> for no match
_DISTANCE_RE(token) ==
    IF /\ Len(token) >= 4
       /\ token[1] = "="
       /\ token[Len(token) - 1] = "m"
       /\ token[Len(token)] = "m"
       /\ IsNumber(SubSeq(token, 2, Len(token) - 2))
    THEN SubSeq(token, 2, Len(token) - 2)
    ELSE <<>>

\* _FUNC_RE.match(token): <<name, argument>>, or <<>> for no match
_FUNC_RE(token) ==
    LET k == find(token, "(")
        n == Len(token)
    IN  IF /\ k > 1
           /\ \A i \in 1..(k - 1) : token[i] \in WordChars
           /\ token[n] = ")"
           /\ n - 1 >= k + 1
           /\ \A i \in (k + 1)..(n - 1) : token[i] # ")"
        THEN <<SubSeq(token, 1, k - 1), SubSeq(token, k + 1, n - 1)>>
        ELSE <<>>

\* mutant: the table holds the short names only
_CONSTRUCTORS_short(name) ==
    CASE name = <<"p">> -> "Parallel"
      [] name = <<"x">> -> "Perpendicular"
      [] name = <<"c">> -> "Coincident"
      [] name = <<"e">> -> "Equal"
      [] name = <<"m">> -> "Midpoint"
      [] OTHER -> "None"

_CONSTRUCTORS(name) ==
    CASE name \in {<<"p">>, <<"p", "a", "r">>} -> "Parallel"
      [] name \in {<<"x">>, <<"p", "e", "r", "p">>} -> "Perpendicular"
      [] name \in {<<"c">>, <<"c", "o", "i", "n">>} -> "Coincident"
      [] name \in {<<"e">>, <<"e", "q">>} -> "Equal"
      [] name \in {<<"m">>, <<"m", "i", "d">>} -> "Midpoint"
      [] OTHER -> "None"

_BARE(token) ==
    CASE token \in {<<"v">>, <<"v", "e", "r", "t">>} -> "Vertical"
      [] token \in {<<"h">>, <<"h", "o", "r", "i", "z">>} -> "Horizontal"
      [] OTHER -> "None"

\* a ConstraintSpec value object
MkSpec(kind, other, value) ==
    [kind |-> kind, other |-> other, value |-> value, axis |-> 0]

NoSpec == MkSpec("None", <<>>, NoValue)

\* a raised ValueError / TypeError: its kind, the text it quotes, the context
\* (dimension name) it names, and for a wrong-context error the spec class and
\* the method that raised
Error(kind, text, context, spec, method) ==
    [kind |-> kind, text |-> text, context |-> context,
     spec |-> spec, method |-> method]

NoError == Error("None", <<>>, <<>>, "None", "None")

Raise(kind, text) == Error(kind, text, <<>>, "None", "None")

\* _parse_token after token.strip()
ParseStripped(token) ==
    LET d == _DISTANCE_RE(token)
        m == _FUNC_RE(token)
    IN  IF token = <<>>
        THEN [ok |-> FALSE, err |-> Raise("EmptyToken", <<>>), spec |-> NoSpec]
        ELSE IF d # <<>>
        THEN [ok |-> TRUE, err |-> NoError,
              spec |-> MkSpec("Distance", <<>>, float(d))]
        ELSE IF m # <<>>
        THEN IF _CONSTRUCTORS(m[1]) = "None"
             THEN [ok |-> FALSE, err |-> Raise("UnknownConstraint", m[1]),
                   spec |-> NoSpec]
             ELSE [ok |-> TRUE, err |-> NoError,
                   spec |-> MkSpec(_CONSTRUCTORS(m[1]), strip(m[2]), NoValue)]
        ELSE IF _BARE(token) # "None"
        THEN [ok |-> TRUE, err |-> NoError,
              spec |-> MkSpec(_BARE(token), <<>>, NoValue)]
        ELSE [ok |-> FALSE, err |-> Raise("UnrecognizedToken", token),
              spec |-> NoSpec]

\* mutant: the token is parsed without being stripped
_parse_token_unstripped(token) == ParseStripped(token)

_parse_token(token) == ParseStripped(strip(token))

RECURSIVE ParseTokens(_, _)
\* the list comprehension of parse_suffix: left to right, the first raise ends it
ParseTokens(tokens, acc) ==
    IF tokens = <<>>
    THEN [ok |-> TRUE, err |-> NoError, specs |-> acc]
    ELSE LET r == _parse_token(Head(tokens))
         IN  IF r.ok
             THEN ParseTokens(Tail(tokens), Append(acc, r.spec))
             ELSE [ok |-> FALSE, err |-> r.err, specs |-> <<>>]

parse_suffix(s) ==
    IF strip(s) = <<>>
    THEN [ok |-> TRUE, err |-> NoError, specs |-> <<>>]
    ELSE ParseTokens(split(s, ","), <<>>)

(***************************************************************************)
(* Units (mapping/_common.py).                                             *)
(***************************************************************************)
_NM_PER_MM == 1000000

\* nm / _NM_PER_MM, exact for the whole-millimetre coordinates of the model
_to_mm(nm) == nm \div _NM_PER_MM

\* Vector2.from_xy_mm
from_xy_mm(u, v) == <<u * _NM_PER_MM, v * _NM_PER_MM>>

(***************************************************************************)
(* Solver facade (solver/sketch.py).  A sketch is the sequence of the      *)
(* entities of the user group and the sequence of its constraints; the     *)
(* handle of an entity or constraint is its place in the sequence.         *)
(***************************************************************************)
Ent(kind, u, v, a, b) ==
    [kind |-> kind, u |-> u, v |-> v, a |-> a, b |-> b, c |-> 0, d |-> 0]

Con(kind, a, b, c, value) ==
    [kind |-> kind, a |-> a, b |-> b, c |-> c, value |-> value]

\* Sketch.__init__: the workspace is cleared and the XY normal is added
Sketch_init == [ents |-> <<Ent("normal", 0, 0, 0, 0)>>, cons |-> <<>>]

LastEnt(sk) == Len(sk.ents)

LastCon(sk) == Len(sk.cons)

AddEnt(sk, e) == [sk EXCEPT !.ents = Append(@, e)]

AddCon(sk, c) == [sk EXCEPT !.cons = Append(@, c)]

\* slvs.clear_sketch(): the global workspace, emptied
clear_sketch(sk) == [ents |-> <<>>, cons |-> <<>>]

\* mutant: the constructor does not clear the workspace
Sketch_new_uncleared(sk) == AddEnt(sk, Ent("normal", 0, 0, 0, 0))

\* Sketch.__init__ on the workspace sk: the workspace it leaves
Sketch_new(sk) == AddEnt(clear_sketch(sk), Ent("normal", 0, 0, 0, 0))

Sketch_point(sk, u, v, fixed) ==
    LET s1 == AddEnt(sk, Ent("point", u, v, 0, 0))
    IN  IF fixed
        THEN AddCon(s1, Con("dragged", LastEnt(s1), 0, 0, NoValue))
        ELSE s1

Sketch_line(sk, p1, p2) == AddEnt(sk, Ent("line", 0, 0, p1, p2))

Sketch_coincident(sk, a, b) == AddCon(sk, Con("coincident", a, b, 0, NoValue))

Sketch_distance(sk, a, b, value) == AddCon(sk, Con("distance", a, b, 0, value))

Sketch_distance_proj(sk, ptA, ptB, axis, value) ==
    AddCon(sk, Con("distance_proj", ptA, ptB, axis, value))

Sketch_horizontal(sk, l) == AddCon(sk, Con("horizontal", l, 0, 0, NoValue))

Sketch_vertical(sk, l) == AddCon(sk, Con("vertical", l, 0, 0, NoValue))

Sketch_parallel(sk, a, b) == AddCon(sk, Con("parallel", a, b, 0, NoValue))

Sketch_perpendicular(sk, a, b) ==
    AddCon(sk, Con("perpendicular", a, b, 0, NoValue))

Sketch_equal(sk, a, b) == AddCon(sk, Con("equal", a, b, 0, NoValue))

Sketch_midpoint(sk, pt, l) == AddCon(sk, Con("midpoint", pt, l, 0, NoValue))

Sketch_dragged(sk, pt) == AddCon(sk, Con("dragged", pt, 0, 0, NoValue))

\* _v2: the solved position of a point as a source vector
_v2(sk, pt) == from_xy_mm(sk.ents[pt].u, sk.ents[pt].v)

\* Sketch.circle: a distance entity holding the radius, then the circle
Sketch_circle(sk, center, radius_value) ==
    LET s1 == AddEnt(sk, Ent("distance", radius_value, 0, 0, 0))
    IN  AddEnt(s1, Ent("circle", 0, 0, center, LastEnt(s1)))

Sketch_arc(sk, center, start, end) ==
    AddEnt(sk, [Ent("arc", 0, 0, center, start) EXCEPT !.c = end])

Sketch_cubic(sk, p1, p2, p3, p4) ==
    AddEnt(sk, [Ent("cubic", 0, 0, p1, p2) EXCEPT !.c = p3, !.d = p4])

\* math.hypot, on the lengths the boards here produce: the root is whole
hypot(x, y) == CHOOSE r \in 0..(x * x + y * y) : r * r = x * x + y * y

RECURSIVE Points(_, _)
\* sketch.point(u, v) for each <<u, v>> of coords, in order
Points(sk, coords) ==
    IF coords = <<>> THEN sk
    ELSE Points(Sketch_point(sk, Head(coords)[1], Head(coords)[2], FALSE),
                Tail(coords))

RECURSIVE Lines(_, _)
\* sketch.line(p1, p2) for each <<p1, p2>> of ends, in order
Lines(sk, ends) ==
    IF ends = <<>> THEN sk
    ELSE Lines(Sketch_line(sk, Head(ends)[1], Head(ends)[2]), Tail(ends))

RECURSIVE Constraints(_, _)
\* the sketch method named by each <<method, a, b>> of calls, in order
Constraints(sk, calls) ==
    IF calls = <<>> THEN sk
    ELSE LET call == Head(calls)
         IN  Constraints(
                CASE call[1] = "midpoint" ->
                        Sketch_midpoint(sk, call[2], call[3])
                  [] call[1] = "perpendicular" ->
                        Sketch_perpendicular(sk, call[2], call[3])
                  [] call[1] = "parallel" ->
                        Sketch_parallel(sk, call[2], call[3])
                  [] call[1] = "equal" -> Sketch_equal(sk, call[2], call[3]),
                Tail(calls))

(***************************************************************************)
(* Sketch.solve.  The solver itself is the slvs library; what the facade   *)
(* relies on is modelled: a result is ok only with every constraint        *)
(* satisfied, a failed solve leaves the parameters as they were, and a     *)
(* sketch whose constraints already hold is solved where it stands.  An    *)
(* unsatisfied sketch may fail, or be solved by moving one point that is   *)
(* not dragged to a place of the grid where every constraint holds.        *)
(***************************************************************************)
Grid == 0..MaxCoord

RECURSIVE Pow10(_)
Pow10(e) == IF e = 0 THEN 1 ELSE 10 * Pow10(e - 1)

Dist2(sk, a, b) ==
    (sk.ents[a].u - sk.ents[b].u) * (sk.ents[a].u - sk.ents[b].u)
        + (sk.ents[a].v - sk.ents[b].v) * (sk.ents[a].v - sk.ents[b].v)

\* the vector of a line, p1 to p2
Vec(sk, l) ==
    <<sk.ents[sk.ents[l].b].u - sk.ents[sk.ents[l].a].u,
      sk.ents[sk.ents[l].b].v - sk.ents[sk.ents[l].a].v>>

Dot(x, y) == x[1] * y[1] + x[2] * y[2]

Cross(x, y) == x[1] * y[2] - x[2] * y[1]

ConstraintHolds(sk, c) ==
    CASE c.kind = "distance" ->
            Dist2(sk, c.a, c.b) * Pow10(2 * c.value.e) = c.value.n * c.value.n
      [] c.kind = "distance_proj" ->
            LET d == Vec(sk, c.c)
                ab == <<sk.ents[c.b].u - sk.ents[c.a].u,
                        sk.ents[c.b].v - sk.ents[c.a].v>>
            IN  Dot(ab, d) * Dot(ab, d) * Pow10(2 * c.value.e)
                    = c.value.n * c.value.n * Dot(d, d)
      [] c.kind = "horizontal" -> Vec(sk, c.a)[2] = 0
      [] c.kind = "vertical" -> Vec(sk, c.a)[1] = 0
      [] c.kind = "parallel" -> Cross(Vec(sk, c.a), Vec(sk, c.b)) = 0
      [] c.kind = "perpendicular" -> Dot(Vec(sk, c.a), Vec(sk, c.b)) = 0
      [] c.kind = "equal" ->
            Dot(Vec(sk, c.a), Vec(sk, c.a)) = Dot(Vec(sk, c.b), Vec(sk, c.b))
      [] c.kind = "coincident" -> Dist2(sk, c.a, c.b) = 0
      [] c.kind = "midpoint" ->
            /\ 2 * sk.ents[c.a].u
                  = sk.ents[sk.ents[c.b].a].u + sk.ents[sk.ents[c.b].b].u
            /\ 2 * sk.ents[c.a].v
                  = sk.ents[sk.ents[c.b].a].v + sk.ents[sk.ents[c.b].b].v
      [] c.kind = "dragged" -> TRUE

Satisfied(sk) == \A k \in 1..Len(sk.cons) : ConstraintHolds(sk, sk.cons[k])

FreePoints(sk) ==
    {p \in 1..Len(sk.ents) :
        /\ sk.ents[p].kind = "point"
        /\ \A k \in 1..Len(sk.cons) :
              ~(sk.cons[k].kind = "dragged" /\ sk.cons[k].a = p)}

\* the sketches an ok solve may leave
Solutions(sk) ==
    IF Satisfied(sk) THEN {sk}
    ELSE {m \in {[sk EXCEPT !.ents[p].u = u, !.ents[p].v = v] :
                    p \in FreePoints(sk), u \in Grid, v \in Grid} :
            Satisfied(m)}

(***************************************************************************)
(* Graphic shape mapper (mapping/graphics.py).  A mapped value keeps the   *)
(* index of its source primitive, its entities by field, and the           *)
(* constraints it emitted.                                                 *)
(***************************************************************************)
KiSegment(start, end) == [type |-> "segment", start |-> start, end |-> end]

KiRectangle(tl, br) ==
    [type |-> "rectangle", top_left |-> tl, bottom_right |-> br]

KiPolygon == [type |-> "polygon"]

\* an arc, with what kipy's arc.center() returns for it: a position, or <<>>
\* for None when start, mid and end determine no circle
KiArc(start, mid, end, center) ==
    [type |-> "arc", start |-> start, mid |-> mid, end |-> end,
     center |-> center]

KiCircle(center, radius_point) ==
    [type |-> "circle", center |-> center, radius_point |-> radius_point]

KiBezier(start, control1, control2, end) ==
    [type |-> "bezier", start |-> start, control1 |-> control1,
     control2 |-> control2, end |-> end]

\* kipy's circ.radius(): the distance from the center to the radius point
radius(circ) ==
    hypot(_to_mm(circ.radius_point[1] - circ.center[1]),
          _to_mm(circ.radius_point[2] - circ.center[2])) * _NM_PER_MM

MappedSegment_create(sk, src, seg) ==
    LET s1 == Sketch_point(sk, _to_mm(seg.start[1]), _to_mm(seg.start[2]), FALSE)
        s2 == Sketch_point(s1, _to_mm(seg.end[1]), _to_mm(seg.end[2]), FALSE)
        s3 == Sketch_line(s2, LastEnt(s1), LastEnt(s2))
    IN  [sk |-> s3,
         m |-> [kind |-> "segment", source |-> src,
                f |-> [start |-> LastEnt(s1), end |-> LastEnt(s2),
                       line |-> LastEnt(s3)],
                constraints |-> <<>>]]

\* MappedRectangle.create, and a mutant of it: the fourth corner is made
\* square too.  The k-th entity a create adds has the handle LastEnt(sk) + k,
\* its k-th constraint the handle LastCon(sk) + k.
MappedRectangle_create_closed(sk, src, rect) ==
    LET tl_x == _to_mm(rect.top_left[1])
        tl_y == _to_mm(rect.top_left[2])
        br_x == _to_mm(rect.bottom_right[1])
        br_y == _to_mm(rect.bottom_right[2])
        tl == LastEnt(sk) + 1
        tr == LastEnt(sk) + 2
        br == LastEnt(sk) + 3
        bl == LastEnt(sk) + 4
        top == LastEnt(sk) + 5
        right == LastEnt(sk) + 6
        bottom == LastEnt(sk) + 7
        left == LastEnt(sk) + 8
    IN  [sk |->
            Constraints(
                Lines(Points(sk, <<<<tl_x, tl_y>>, <<br_x, tl_y>>,
                                   <<br_x, br_y>>, <<tl_x, br_y>>>>),
                      <<<<tl, tr>>, <<tr, br>>, <<br, bl>>, <<bl, tl>>>>),
                <<<<"perpendicular", top, right>>,
                  <<"perpendicular", right, bottom>>,
                  <<"perpendicular", bottom, left>>,
                  <<"perpendicular", left, top>>>>),
         m |-> [kind |-> "rectangle", source |-> src,
                f |-> [top_left |-> tl, top_right |-> tr,
                       bottom_right |-> br, bottom_left |-> bl,
                       top |-> top, right |-> right,
                       bottom |-> bottom, left |-> left],
                constraints |-> [k \in 1..4 |-> LastCon(sk) + k]]]

MappedRectangle_create(sk, src, rect) ==
    LET tl_x == _to_mm(rect.top_left[1])
        tl_y == _to_mm(rect.top_left[2])
        br_x == _to_mm(rect.bottom_right[1])
        br_y == _to_mm(rect.bottom_right[2])
        tl == LastEnt(sk) + 1
        tr == LastEnt(sk) + 2
        br == LastEnt(sk) + 3
        bl == LastEnt(sk) + 4
        top == LastEnt(sk) + 5
        right == LastEnt(sk) + 6
        bottom == LastEnt(sk) + 7
        left == LastEnt(sk) + 8
    IN  [sk |->
            Constraints(
                Lines(Points(sk, <<<<tl_x, tl_y>>, <<br_x, tl_y>>,
                                   <<br_x, br_y>>, <<tl_x, br_y>>>>),
                      <<<<tl, tr>>, <<tr, br>>, <<br, bl>>, <<bl, tl>>>>),
                <<<<"perpendicular", top, right>>,
                  <<"perpendicular", right, bottom>>,
                  <<"perpendicular", bottom, left>>>>),
         m |-> [kind |-> "rectangle", source |-> src,
                f |-> [top_left |-> tl, top_right |-> tr,
                       bottom_right |-> br, bottom_left |-> bl,
                       top |-> top, right |-> right,
                       bottom |-> bottom, left |-> left],
                constraints |-> [k \in 1..3 |-> LastCon(sk) + k]]]

NoMapped == [kind |-> "none", source |-> 0, f |-> <<>>, constraints |-> <<>>]

\* what a create classmethod returns or raises: [ok, err, sk, m]
Created(sk, m) == [ok |-> TRUE, err |-> NoError, sk |-> sk, m |-> m]

Return(r) == Created(r.sk, r.m)

NotCreated(sk, err) == [ok |-> FALSE, err |-> err, sk |-> sk, m |-> NoMapped]

\* mutant: the center is not looked at before the start and end points are
\* added
MappedArc_create_late(sk, src, arc) ==
    LET s1 == Sketch_point(sk, _to_mm(arc.start[1]), _to_mm(arc.start[2]), FALSE)
        s2 == Sketch_point(s1, _to_mm(arc.end[1]), _to_mm(arc.end[2]), FALSE)
    IN  IF arc.center = <<>>
        THEN NotCreated(s2, Raise("DegenerateArc", <<>>))
        ELSE LET s3 == Sketch_point(s2, _to_mm(arc.center[1]),
                                    _to_mm(arc.center[2]), FALSE)
                 s4 == Sketch_arc(s3, LastEnt(s3), LastEnt(s1), LastEnt(s2))
             IN  Created(s4, [kind |-> "arc", source |-> src,
                              f |-> [center |-> LastEnt(s3),
                                     start |-> LastEnt(s1),
                                     end |-> LastEnt(s2), arc |-> LastEnt(s4)],
                              constraints |-> <<>>])

MappedArc_create(sk, src, arc) ==
    IF arc.center = <<>>
    THEN NotCreated(sk, Raise("DegenerateArc", <<>>))
    ELSE LET s1 == Sketch_point(sk, _to_mm(arc.center[1]),
                                _to_mm(arc.center[2]), FALSE)
             s2 == Sketch_point(s1, _to_mm(arc.start[1]),
                                _to_mm(arc.start[2]), FALSE)
             s3 == Sketch_point(s2, _to_mm(arc.end[1]), _to_mm(arc.end[2]),
                                FALSE)
             s4 == Sketch_arc(s3, LastEnt(s1), LastEnt(s2), LastEnt(s3))
         IN  Created(s4, [kind |-> "arc", source |-> src,
                          f |-> [center |-> LastEnt(s1), start |-> LastEnt(s2),
                                 end |-> LastEnt(s3), arc |-> LastEnt(s4)],
                          constraints |-> <<>>])

MappedCircle_create(sk, src, circ) ==
    LET s1 == Sketch_point(sk, _to_mm(circ.center[1]), _to_mm(circ.center[2]),
                           FALSE)
        s2 == Sketch_circle(s1, LastEnt(s1), _to_mm(radius(circ)))
    IN  [sk |-> s2,
         m |-> [kind |-> "circle", source |-> src,
                f |-> [center |-> LastEnt(s1), circle |-> LastEnt(s2)],
                constraints |-> <<>>]]

MappedBezier_create(sk, src, bez) ==
    LET s1 == Sketch_point(sk, _to_mm(bez.start[1]), _to_mm(bez.start[2]), FALSE)
        s2 == Sketch_point(s1, _to_mm(bez.control1[1]),
                           _to_mm(bez.control1[2]), FALSE)
        s3 == Sketch_point(s2, _to_mm(bez.control2[1]),
                           _to_mm(bez.control2[2]), FALSE)
        s4 == Sketch_point(s3, _to_mm(bez.end[1]), _to_mm(bez.end[2]), FALSE)
        s5 == Sketch_cubic(s4, LastEnt(s1), LastEnt(s2), LastEnt(s3),
                           LastEnt(s4))
    IN  [sk |-> s5,
         m |-> [kind |-> "bezier", source |-> src,
                f |-> [start |-> LastEnt(s1), control1 |-> LastEnt(s2),
                       control2 |-> LastEnt(s3), end |-> LastEnt(s4),
                       cubic |-> LastEnt(s5)],
                constraints |-> <<>>]]

\* map_shape: [ok, err, sk, m]
map_shape(sk, src, shape) ==
    CASE shape.type = "segment" -> Return(MappedSegment_create(sk, src, shape))
      [] shape.type = "arc" -> MappedArc_create(sk, src, shape)
      [] shape.type = "circle" -> Return(MappedCircle_create(sk, src, shape))
      [] shape.type = "rectangle" ->
            Return(MappedRectangle_create(sk, src, shape))
      [] shape.type = "bezier" -> Return(MappedBezier_create(sk, src, shape))
      [] OTHER -> NotCreated(sk, Raise("UnsupportedShape", <<>>))

RECURSIVE ChamferPoints(_)
\* the p_h and p_v of the chamfers that are not None, in the order given
ChamferPoints(chamfers) ==
    IF chamfers = <<>> THEN <<>>
    ELSE (IF Head(chamfers).some
          THEN <<Head(chamfers).p_h, Head(chamfers).p_v>> ELSE <<>>)
         \o ChamferPoints(Tail(chamfers))

RECURSIVE ChamferLines(_)
\* the chamfer lines of the chamfers that are not None, in the order given
ChamferLines(chamfers) ==
    IF chamfers = <<>> THEN <<>>
    ELSE (IF Head(chamfers).some THEN <<Head(chamfers).chamfer>> ELSE <<>>)
         \o ChamferLines(Tail(chamfers))

\* mutant: a chamfered pad lists its corner points only
points_corners(m) ==
    CASE m.kind = "segment" -> <<m.f.start, m.f.end>>
      [] m.kind = "arc" -> <<m.f.center, m.f.start, m.f.end>>
      [] m.kind \in {"circle", "pad_circle"} -> <<m.f.center>>
      [] m.kind = "rectangle" ->
            <<m.f.top_left, m.f.top_right, m.f.bottom_right, m.f.bottom_left>>
      [] m.kind = "bezier" ->
            <<m.f.start, m.f.control1, m.f.control2, m.f.end>>
      [] m.kind \in {"pad_rectangle", "pad_chamfered_rect"} ->
            <<m.f.center, m.f.tl, m.f.tr, m.f.br, m.f.bl>>
      [] m.kind = "pad_trapezoid" ->
            <<m.f.center, m.f.tl, m.f.tr, m.f.br, m.f.bl,
              m.f.midpoint_a, m.f.midpoint_b>>

\* the points property of a mapped value
points(m) ==
    CASE m.kind = "segment" -> <<m.f.start, m.f.end>>
      [] m.kind = "arc" -> <<m.f.center, m.f.start, m.f.end>>
      [] m.kind \in {"circle", "pad_circle"} -> <<m.f.center>>
      [] m.kind = "rectangle" ->
            <<m.f.top_left, m.f.top_right, m.f.bottom_right, m.f.bottom_left>>
      [] m.kind = "bezier" ->
            <<m.f.start, m.f.control1, m.f.control2, m.f.end>>
      [] m.kind = "pad_rectangle" ->
            <<m.f.center, m.f.tl, m.f.tr, m.f.br, m.f.bl>>
      [] m.kind = "pad_trapezoid" ->
            <<m.f.center, m.f.tl, m.f.tr, m.f.br, m.f.bl,
              m.f.midpoint_a, m.f.midpoint_b>>
      [] m.kind = "pad_chamfered_rect" ->
            <<m.f.center, m.f.tl, m.f.tr, m.f.br, m.f.bl,
              m.f.top_mid, m.f.left_mid, m.f.right_mid, m.f.bottom_mid>>
            \o ChamferPoints(<<m.f.chamfer_tl, m.f.chamfer_tr,
                               m.f.chamfer_bl, m.f.chamfer_br>>)

\* the lines property of a mapped value
lines(m) ==
    CASE m.kind = "segment" -> <<m.f.line>>
      [] m.kind \in {"rectangle", "pad_rectangle", "pad_trapezoid"} ->
            <<m.f.top, m.f.right, m.f.bottom, m.f.left>>
      [] m.kind = "pad_chamfered_rect" ->
            <<m.f.top, m.f.right, m.f.bottom, m.f.left>>
            \o ChamferLines(<<m.f.chamfer_tl, m.f.chamfer_tr,
                              m.f.chamfer_bl, m.f.chamfer_br>>)
      [] m.kind \in {"arc", "circle", "bezier", "pad_circle"} -> <<>>

\* write_back of one mapped shape: the source primitive it leaves (of a
\* segment, circle, rectangle or Bezier; the arc's, which places mid by its
\* angle, is not modelled)
Shape_write_back(sk, m, source) ==
    CASE m.kind = "segment" ->
            [source EXCEPT !.start = _v2(sk, m.f.start),
                           !.end = _v2(sk, m.f.end)]
      [] m.kind = "circle" ->
            [source EXCEPT
                !.center = _v2(sk, m.f.center),
                !.radius_point =
                    from_xy_mm(sk.ents[m.f.center].u
                                   + sk.ents[sk.ents[m.f.circle].b].u,
                               sk.ents[m.f.center].v)]
      [] m.kind = "bezier" ->
            [source EXCEPT !.start = _v2(sk, m.f.start),
                           !.control1 = _v2(sk, m.f.control1),
                           !.control2 = _v2(sk, m.f.control2),
                           !.end = _v2(sk, m.f.end)]
      [] m.kind = "rectangle" ->
            [source EXCEPT !.top_left = _v2(sk, m.f.top_left),
                           !.bottom_right = _v2(sk, m.f.bottom_right)]

RECURSIVE WriteBackAll(_, _, _, _)
\* the loop of write_back_shapes: m.write_back(); sources.append(m.source)
WriteBackAll(sk, mapped, srcs, i) ==
    IF i > Len(mapped) THEN srcs
    ELSE WriteBackAll(sk, mapped,
                      [srcs EXCEPT ![mapped[i].source] =
                          Shape_write_back(sk, mapped[i], @)],
                      i + 1)

\* mutant: the result is not looked at
write_back_shapes_unchecked(sk, mapped, result_ok, srcs) ==
    [raised |-> FALSE, srcs |-> WriteBackAll(sk, mapped, srcs, 1),
     sources |-> [i \in 1..Len(mapped) |-> mapped[i].source]]

\* write_back_shapes: whether it raised, the source primitives after the
\* call, and the list it returned (each source by its place on the board)
write_back_shapes(sk, mapped, result_ok, srcs) ==
    IF ~result_ok
    THEN [raised |-> TRUE, srcs |-> srcs, sources |-> <<>>]
    ELSE [raised |-> FALSE, srcs |-> WriteBackAll(sk, mapped, srcs, 1),
          sources |-> [i \in 1..Len(mapped) |-> mapped[i].source]]

(***************************************************************************)
(* Pad mapper (mapping/pads.py): the pad's shared center and its copper    *)
(* layers.  A chamfer ratio is a fraction <<n, d>> in lowest terms.        *)
(***************************************************************************)
NoCorners ==
    [top_left |-> FALSE, top_right |-> FALSE, bottom_left |-> FALSE,
     bottom_right |-> FALSE]

\* a PadStackLayer and a Pad: the fields the mapper reads and writes
KiLayer(shape, anchor, size) ==
    [shape |-> shape, custom_anchor_shape |-> anchor, size |-> size,
     trapezoid_delta |-> <<0, 0>>, chamfer_ratio |-> <<0, 1>>,
     chamfered_corners |-> NoCorners]

KiPad(position, layers) == [position |-> position, copper_layers |-> layers]

Abs(x) == IF x < 0 THEN -x ELSE x

RECURSIVE Gcd(_, _)
Gcd(a, b) == IF b = 0 THEN a ELSE Gcd(b, a % b)

\* the length of the line from point p1 to point p2 of the sketch
Length(sk, p1, p2) ==
    hypot(sk.ents[p2].u - sk.ents[p1].u, sk.ents[p2].v - sk.ents[p1].v)

MappedPadCircle_create(sk, src, layer, center) ==
    LET s1 == Sketch_circle(sk, center, _to_mm(layer.size[1] \div 2))
    IN  [sk |-> s1,
         m |-> [kind |-> "pad_circle", source |-> src,
                f |-> [center |-> center, circle |-> LastEnt(s1)],
                constraints |-> <<>>]]

\* MappedPadCircle.write_back: the layer it leaves
MappedPadCircle_write_back(sk, m, layer) ==
    LET d == sk.ents[sk.ents[m.f.circle].b].u * 2
    IN  [layer EXCEPT !.size = from_xy_mm(d, d)]

\* MappedPadRectangle.create.  The k-th entity a create adds has the handle
\* LastEnt(sk) + k, its k-th constraint the handle LastCon(sk) + k.
MappedPadRectangle_create(sk, src, layer, center, x, y) ==
    LET half_x == layer.size[1] \div 2
        half_y == layer.size[2] \div 2
        tl == LastEnt(sk) + 1
        tr == LastEnt(sk) + 2
        br == LastEnt(sk) + 3
        bl == LastEnt(sk) + 4
        construction == LastEnt(sk) + 5
        top == LastEnt(sk) + 6
        bottom == LastEnt(sk) + 7
        left == LastEnt(sk) + 8
        right == LastEnt(sk) + 9
    IN  [sk |->
            Constraints(
                Lines(Points(sk, <<<<_to_mm(x - half_x), _to_mm(y - half_y)>>,
                                   <<_to_mm(x + half_x), _to_mm(y - half_y)>>,
                                   <<_to_mm(x + half_x), _to_mm(y + half_y)>>,
                                   <<_to_mm(x - half_x), _to_mm(y + half_y)>>>>),
                      <<<<tl, br>>, <<tl, tr>>, <<bl, br>>, <<tl, bl>>,
                        <<tr, br>>>>),
                <<<<"midpoint", center, construction>>,
                  <<"perpendicular", top, left>>,
                  <<"perpendicular", bottom, right>>,
                  <<"perpendicular", left, bottom>>>>),
         m |-> [kind |-> "pad_rectangle", source |-> src,
                f |-> [center |-> center, tl |-> tl, tr |-> tr, br |-> br,
                       bl |-> bl, top |-> top, right |-> right,
                       bottom |-> bottom, left |-> left,
                       construction |-> construction],
                constraints |-> [k \in 1..4 |-> LastCon(sk) + k]]]

\* MappedPadRectangle.write_back: the layer it leaves
MappedPadRectangle_write_back(sk, m, layer) ==
    LET width == Length(sk, m.f.tl, m.f.tr)
        height == Length(sk, m.f.tl, m.f.bl)
    IN  [layer EXCEPT !.size = from_xy_mm(width, height)]

MappedPadTrapezoid_create(sk, src, layer, center, x, y) ==
    LET trap_x == layer.trapezoid_delta[1] \div 2
        trap_y == layer.trapezoid_delta[2] \div 2
        half_x == layer.size[1] \div 2
        half_y == layer.size[2] \div 2
        tl == LastEnt(sk) + 1
        tr == LastEnt(sk) + 2
        br == LastEnt(sk) + 3
        bl == LastEnt(sk) + 4
        top == LastEnt(sk) + 5
        bottom == LastEnt(sk) + 6
        left == LastEnt(sk) + 7
        right == LastEnt(sk) + 8
        mp_a == LastEnt(sk) + 9
        mp_b == LastEnt(sk) + 10
        construction == LastEnt(sk) + 11
    IN  [sk |->
            Constraints(
                Lines(
                    Points(
                        Lines(
                            Points(sk,
                                   <<<<_to_mm(x - half_x - trap_y),
                                       _to_mm(y - half_y + trap_x)>>,
                                     <<_to_mm(x + half_x + trap_y),
                                       _to_mm(y - half_y - trap_x)>>,
                                     <<_to_mm(x + half_x - trap_y),
                                       _to_mm(y + half_y + trap_x)>>,
                                     <<_to_mm(x - half_x + trap_y),
                                       _to_mm(y + half_y - trap_x)>>>>),
                            <<<<tl, tr>>, <<bl, br>>, <<tl, bl>>, <<tr, br>>>>),
                        IF trap_x # 0
                        THEN <<<<_to_mm(x - half_x), _to_mm(y)>>,
                               <<_to_mm(x + half_x), _to_mm(y)>>>>
                        ELSE <<<<_to_mm(x), _to_mm(y - half_y)>>,
                               <<_to_mm(x), _to_mm(y + half_y)>>>>),
                    <<<<mp_a, mp_b>>>>),
                IF trap_x # 0
                THEN <<<<"midpoint", mp_a, left>>,
                       <<"midpoint", mp_b, right>>,
                       <<"perpendicular", construction, left>>,
                       <<"midpoint", center, construction>>,
                       <<"parallel", left, right>>,
                       <<"equal", top, bottom>>>>
                ELSE <<<<"midpoint", mp_a, top>>,
                       <<"midpoint", mp_b, bottom>>,
                       <<"perpendicular", construction, top>>,
                       <<"midpoint", center, construction>>,
                       <<"parallel", top, bottom>>,
                       <<"equal", left, right>>>>),
         m |-> [kind |-> "pad_trapezoid", source |-> src,
                f |-> [center |-> center, tl |-> tl, tr |-> tr, br |-> br,
                       bl |-> bl, top |-> top, right |-> right,
                       bottom |-> bottom, left |-> left,
                       midpoint_a |-> mp_a, midpoint_b |-> mp_b,
                       construction |-> construction],
                constraints |-> [k \in 1..6 |-> LastCon(sk) + k]]]

\* the sizes a trapezoid's write_back writes, by the branch it takes; lengths
\* are sums of two halves, so that a mean of two lengths is whole
TrapezoidWritten(layer, vertical, construction_len, a_len, b_len) ==
    IF vertical
    THEN [layer EXCEPT
            !.size = <<construction_len * _NM_PER_MM,
                       (a_len + b_len) * (_NM_PER_MM \div 2)>>,
            !.trapezoid_delta = <<(b_len - a_len) * (_NM_PER_MM \div 2), 0>>]
    ELSE [layer EXCEPT
            !.size = <<(a_len + b_len) * (_NM_PER_MM \div 2),
                       construction_len * _NM_PER_MM>>,
            !.trapezoid_delta = <<0, (a_len - b_len) * (_NM_PER_MM \div 2)>>]

\* mutant: the branch is chosen as create chooses it
MappedPadTrapezoid_write_back_as_create(sk, m, layer) ==
    LET construction_len == Length(sk, m.f.midpoint_a, m.f.midpoint_b)
    IN  IF layer.trapezoid_delta[1] # 0
        THEN TrapezoidWritten(layer, TRUE, construction_len,
                              Length(sk, m.f.tl, m.f.bl),
                              Length(sk, m.f.tr, m.f.br))
        ELSE TrapezoidWritten(layer, FALSE, construction_len,
                              Length(sk, m.f.tl, m.f.tr),
                              Length(sk, m.f.bl, m.f.br))

\* MappedPadTrapezoid.write_back: the layer it leaves
MappedPadTrapezoid_write_back(sk, m, layer) ==
    LET construction_len == Length(sk, m.f.midpoint_a, m.f.midpoint_b)
        original_delta == layer.trapezoid_delta
    IN  IF original_delta[1] # 0 \/ original_delta[2] = 0
        THEN TrapezoidWritten(layer, TRUE, construction_len,
                              Length(sk, m.f.tl, m.f.bl),
                              Length(sk, m.f.tr, m.f.br))
        ELSE TrapezoidWritten(layer, FALSE, construction_len,
                              Length(sk, m.f.tl, m.f.tr),
                              Length(sk, m.f.bl, m.f.br))

ChamferCorner(p_h, p_v, chamfer, h_construction, v_construction) ==
    [some |-> TRUE, p_h |-> p_h, p_v |-> p_v, chamfer |-> chamfer,
     h_construction |-> h_construction, v_construction |-> v_construction]

\* None, for a corner without chamfer
NoChamfer ==
    [some |-> FALSE, p_h |-> 0, p_v |-> 0, chamfer |-> 0,
     h_construction |-> 0, v_construction |-> 0]

\* _build_chamfer_corner: [sk, c]
_build_chamfer_corner(sk, pt, adj_h, adj_v) ==
    LET p_h == LastEnt(sk) + 1
        p_v == LastEnt(sk) + 2
    IN  [sk |->
            Lines(Points(sk, <<<<sk.ents[pt].u + _to_mm(adj_h), sk.ents[pt].v>>,
                               <<sk.ents[pt].u,
                                 sk.ents[pt].v + _to_mm(adj_v)>>>>),
                  <<<<p_h, p_v>>, <<pt, p_v>>, <<pt, p_h>>>>),
         c |-> ChamferCorner(p_h, p_v, LastEnt(sk) + 3, LastEnt(sk) + 5,
                             LastEnt(sk) + 4)]

\* mutant: the two construction lines of a chamfer are not made equal
CornerBuilt_unconstrained(st, sk, c) ==
    [sk |-> sk,
     constraints |-> st.constraints,
     v_construction_lines |->
         Append(st.v_construction_lines, c.v_construction),
     h_construction_lines |->
         Append(st.h_construction_lines, c.h_construction),
     chamfers |-> Append(st.chamfers, c),
     edge_h |-> Append(st.edge_h, c.p_h),
     edge_v |-> Append(st.edge_v, c.p_v)]

\* a chamfered corner of the loop over corner_specs, once built
CornerBuilt(st, sk, c) ==
    [sk |-> Sketch_equal(sk, c.v_construction, c.h_construction),
     constraints |-> Append(st.constraints, LastCon(sk) + 1),
     v_construction_lines |->
         Append(st.v_construction_lines, c.v_construction),
     h_construction_lines |->
         Append(st.h_construction_lines, c.h_construction),
     chamfers |-> Append(st.chamfers, c),
     edge_h |-> Append(st.edge_h, c.p_h),
     edge_v |-> Append(st.edge_v, c.p_v)]

RECURSIVE BuildCorners(_, _, _, _)
\* the loop over corner_specs, each <<pt, is_chamfered, h_sign, v_sign>>
BuildCorners(st, corner_specs, chamfer_dist, i) ==
    IF i > Len(corner_specs) THEN st
    ELSE LET pt == corner_specs[i][1]
             c == _build_chamfer_corner(st.sk, pt,
                                        corner_specs[i][3] * chamfer_dist,
                                        corner_specs[i][4] * chamfer_dist)
         IN  IF corner_specs[i][2]
             THEN BuildCorners(CornerBuilt(st, c.sk, c.c), corner_specs,
                               chamfer_dist, i + 1)
             ELSE BuildCorners(
                     [st EXCEPT !.chamfers = Append(@, NoChamfer),
                                !.edge_h = Append(@, pt),
                                !.edge_v = Append(@, pt)],
                     corner_specs, chamfer_dist, i + 1)

RECURSIVE EqualToPrevious(_, _, _)
\* for i in range(1, len(v_construction_lines)): equal(lines[i], lines[i - 1])
EqualToPrevious(st, ls, i) ==
    IF i > Len(ls) THEN st
    ELSE EqualToPrevious(
            [st EXCEPT !.sk = Sketch_equal(@, ls[i], ls[i - 1]),
                       !.constraints = Append(@, LastCon(st.sk) + 1)],
            ls, i + 1)

RECURSIVE ParallelTo(_, _, _, _)
\* for line in ls: constraints.append(sketch.parallel(construction, line))
ParallelTo(st, construction, ls, i) ==
    IF i > Len(ls) THEN st
    ELSE ParallelTo(
            [st EXCEPT !.sk = Sketch_parallel(@, construction, ls[i]),
                       !.constraints = Append(@, LastCon(st.sk) + 1)],
            construction, ls, i + 1)

\* MappedPadChamferedRect.create, from the edge lines to the eleven
\* constraints of the midpoints and the construction lines
ChamferedEdges(st, center, x, y, half_x, half_y) ==
    LET top == LastEnt(st.sk) + 1
        left == LastEnt(st.sk) + 2
        right == LastEnt(st.sk) + 3
        bottom == LastEnt(st.sk) + 4
        tm == LastEnt(st.sk) + 5
        lm == LastEnt(st.sk) + 6
        rm == LastEnt(st.sk) + 7
        bm == LastEnt(st.sk) + 8
        construction_v == LastEnt(st.sk) + 9
        construction_h == LastEnt(st.sk) + 10
    IN  [st EXCEPT
            !.sk =
                Constraints(
                    Lines(
                        Points(
                            Lines(@, <<<<st.edge_h[2], st.edge_h[1]>>,
                                       <<st.edge_v[1], st.edge_v[3]>>,
                                       <<st.edge_v[2], st.edge_v[4]>>,
                                       <<st.edge_h[3], st.edge_h[4]>>>>),
                            <<<<_to_mm(x), _to_mm(y - half_y)>>,
                              <<_to_mm(x - half_x), _to_mm(y)>>,
                              <<_to_mm(x + half_x), _to_mm(y)>>,
                              <<_to_mm(x), _to_mm(y + half_y)>>>>),
                        <<<<tm, bm>>, <<lm, rm>>>>),
                    <<<<"midpoint", tm, top>>,
                      <<"midpoint", lm, left>>,
                      <<"midpoint", rm, right>>,
                      <<"midpoint", bm, bottom>>,
                      <<"midpoint", center, construction_v>>,
                      <<"midpoint", center, construction_h>>,
                      <<"perpendicular", construction_h, construction_v>>,
                      <<"parallel", construction_h, bottom>>,
                      <<"parallel", construction_h, top>>,
                      <<"parallel", construction_v, left>>,
                      <<"parallel", construction_v, right>>>>),
            !.constraints = @ \o [k \in 1..11 |-> LastCon(st.sk) + k]]

\* MappedPadChamferedRect.create, from the corners built: e is the handle of
\* the last entity the sketch held when the edge lines were added
ChamferedRect(st, e, src, center, tl) ==
    [sk |-> st.sk,
     m |-> [kind |-> "pad_chamfered_rect", source |-> src,
            f |-> [center |-> center, tl |-> tl, tr |-> tl + 1,
                   br |-> tl + 2, bl |-> tl + 3,
                   top |-> e + 1, right |-> e + 3, bottom |-> e + 4,
                   left |-> e + 2,
                   chamfer_tl |-> st.chamfers[1],
                   chamfer_tr |-> st.chamfers[2],
                   chamfer_bl |-> st.chamfers[3],
                   chamfer_br |-> st.chamfers[4],
                   top_mid |-> e + 5, left_mid |-> e + 6,
                   right_mid |-> e + 7, bottom_mid |-> e + 8,
                   construction_v |-> e + 9, construction_h |-> e + 10],
            constraints |-> st.constraints]]

\* MappedPadChamferedRect.create, after the corners: the chamfers of equal
\* length, the edges and midpoints, the parallels of the chamfer axes
ChamferedBuilt(st, src, center, x, y, half_x, half_y, tl) ==
    ChamferedRect(
        ParallelTo(
            ParallelTo(
                ChamferedEdges(
                    EqualToPrevious(st, st.v_construction_lines, 2),
                    center, x, y, half_x, half_y),
                LastEnt(st.sk) + 9, st.v_construction_lines, 1),
            LastEnt(st.sk) + 10, st.h_construction_lines, 1),
        LastEnt(st.sk), src, center, tl)

MappedPadChamferedRect_create(sk, src, layer, center, x, y) ==
    LET smaller == IF layer.size[1] <= layer.size[2] THEN layer.size[1]
                   ELSE layer.size[2]
        chamfer_dist ==
            (smaller * layer.chamfer_ratio[1]) \div layer.chamfer_ratio[2]
        half_x == layer.size[1] \div 2
        half_y == layer.size[2] \div 2
        tl == LastEnt(sk) + 1
        tr == LastEnt(sk) + 2
        br == LastEnt(sk) + 3
        bl == LastEnt(sk) + 4
        corners == layer.chamfered_corners
    IN  ChamferedBuilt(
            BuildCorners(
                [sk |-> Points(sk,
                               <<<<_to_mm(x - half_x), _to_mm(y - half_y)>>,
                                 <<_to_mm(x + half_x), _to_mm(y - half_y)>>,
                                 <<_to_mm(x + half_x), _to_mm(y + half_y)>>,
                                 <<_to_mm(x - half_x), _to_mm(y + half_y)>>>>),
                 constraints |-> <<>>,
                 v_construction_lines |-> <<>>,
                 h_construction_lines |-> <<>>,
                 chamfers |-> <<>>, edge_h |-> <<>>, edge_v |-> <<>>],
                <<<<tl, corners.top_left, 1, 1>>,
                  <<tr, corners.top_right, -1, 1>>,
                  <<bl, corners.bottom_left, 1, -1>>,
                  <<br, corners.bottom_right, -1, -1>>>>,
                chamfer_dist, 1),
            src, center, x, y, half_x, half_y, tl)

\* chamfer_dist / min(width, height), in lowest terms
Ratio(n, d) == <<n \div Gcd(n, d), d \div Gcd(n, d)>>

\* MappedPadChamferedRect.write_back: the layer it leaves
MappedPadChamferedRect_write_back(sk, m, layer) ==
    LET width == Length(sk, m.f.left_mid, m.f.right_mid)
        height == Length(sk, m.f.top_mid, m.f.bottom_mid)
        chamfers == <<m.f.chamfer_tl, m.f.chamfer_tr, m.f.chamfer_bl,
                      m.f.chamfer_br>>
        some == {k \in 1..4 : chamfers[k].some}
        sized == [layer EXCEPT !.size = from_xy_mm(width, height)]
    IN  IF some = {} THEN sized
        ELSE LET chamfer == chamfers[CHOOSE k \in some : \A j \in some : k <= j]
                 chamfer_dist ==
                     Length(sk, sk.ents[chamfer.h_construction].a,
                            sk.ents[chamfer.h_construction].b)
             IN  [sized EXCEPT
                    !.chamfer_ratio =
                        Ratio(chamfer_dist,
                              IF width <= height THEN width ELSE height)]

\* a mapped layer, as _map_pad_layer returns it
Some(r) == [some |-> TRUE, sk |-> r.sk, m |-> r.m]

\* mutant: an oval layer is mapped as a circle, a rounded rectangle is not
\* mapped
_map_pad_layer_oval(sk, src, layer, center, x, y) ==
    IF \/ layer.shape \in {"PSS_CIRCLE", "PSS_OVAL"}
       \/ /\ layer.shape = "PSS_CUSTOM"
          /\ layer.custom_anchor_shape = "PSS_CIRCLE"
    THEN Some(MappedPadCircle_create(sk, src, layer, center))
    ELSE IF \/ layer.shape = "PSS_RECTANGLE"
            \/ /\ layer.shape = "PSS_CUSTOM"
               /\ layer.custom_anchor_shape = "PSS_RECTANGLE"
    THEN Some(MappedPadRectangle_create(sk, src, layer, center, x, y))
    ELSE IF layer.shape = "PSS_TRAPEZOID"
    THEN Some(MappedPadTrapezoid_create(sk, src, layer, center, x, y))
    ELSE IF layer.shape = "PSS_CHAMFEREDRECT"
    THEN Some(MappedPadChamferedRect_create(sk, src, layer, center, x, y))
    ELSE [some |-> FALSE, sk |-> sk, m |-> NoMapped]

\* _map_pad_layer: [some, sk, m]; some is FALSE for None
_map_pad_layer(sk, src, layer, center, x, y) ==
    IF \/ layer.shape = "PSS_CIRCLE"
       \/ /\ layer.shape = "PSS_CUSTOM"
          /\ layer.custom_anchor_shape = "PSS_CIRCLE"
    THEN Some(MappedPadCircle_create(sk, src, layer, center))
    ELSE IF \/ layer.shape \in {"PSS_RECTANGLE", "PSS_ROUNDRECT"}
            \/ /\ layer.shape = "PSS_CUSTOM"
               /\ layer.custom_anchor_shape = "PSS_RECTANGLE"
    THEN Some(MappedPadRectangle_create(sk, src, layer, center, x, y))
    ELSE IF layer.shape = "PSS_TRAPEZOID"
    THEN Some(MappedPadTrapezoid_create(sk, src, layer, center, x, y))
    ELSE IF layer.shape = "PSS_CHAMFEREDRECT"
    THEN Some(MappedPadChamferedRect_create(sk, src, layer, center, x, y))
    ELSE [some |-> FALSE, sk |-> sk, m |-> NoMapped]

RECURSIVE MapLayers_own_center(_, _, _, _, _, _, _)
\* mutant: every layer is given a center point of its own
MapLayers_own_center(sk, layers, center, x, y, i, acc) ==
    IF i > Len(layers) THEN [sk |-> sk, layers |-> acc]
    ELSE LET s1 == Sketch_point(sk, _to_mm(x), _to_mm(y), FALSE)
             r == _map_pad_layer(s1, i, layers[i], LastEnt(s1), x, y)
         IN  MapLayers_own_center(r.sk, layers, center, x, y, i + 1,
                                  IF r.some THEN Append(acc, r.m) ELSE acc)

RECURSIVE MapLayers(_, _, _, _, _, _, _)
\* the loop of map_pad over shape.padstack.copper_layers
MapLayers(sk, layers, center, x, y, i, acc) ==
    IF i > Len(layers) THEN [sk |-> sk, layers |-> acc]
    ELSE LET r == _map_pad_layer(sk, i, layers[i], center, x, y)
         IN  MapLayers(r.sk, layers, center, x, y, i + 1,
                       IF r.some THEN Append(acc, r.m) ELSE acc)

\* map_pad: [sk, m]
map_pad(sk, src, pad) ==
    LET s1 == Sketch_point(sk, _to_mm(pad.position[1]),
                           _to_mm(pad.position[2]), FALSE)
        r == MapLayers(s1, pad.copper_layers, LastEnt(s1), pad.position[1],
                       pad.position[2], 1, <<>>)
    IN  [sk |-> r.sk,
         m |-> [source |-> src, position |-> LastEnt(s1),
                mapped_geometry |-> r.layers,
                constraints |->
                    Flatten([i \in 1..Len(r.layers) |->
                                r.layers[i].constraints])]]

\* layer.write_back(), by the class of the mapped layer
Layer_write_back(sk, m, layer) ==
    CASE m.kind = "pad_circle" -> MappedPadCircle_write_back(sk, m, layer)
      [] m.kind = "pad_rectangle" ->
            MappedPadRectangle_write_back(sk, m, layer)
      [] m.kind = "pad_trapezoid" ->
            MappedPadTrapezoid_write_back(sk, m, layer)
      [] m.kind = "pad_chamfered_rect" ->
            MappedPadChamferedRect_write_back(sk, m, layer)

RECURSIVE WriteBackLayers(_, _, _, _)
\* for layer in self.mapped_geometry: layer.write_back(); the pad it leaves
\* and the writes in the order they were made
WriteBackLayers(sk, geometry, st, i) ==
    IF i > Len(geometry) THEN st
    ELSE WriteBackLayers(
            sk, geometry,
            [pad |-> [st.pad EXCEPT !.copper_layers[geometry[i].source] =
                        Layer_write_back(sk, geometry[i], @)],
             writes |-> Append(st.writes, geometry[i].source)],
            i + 1)

\* MappedPad.write_back: the pad it leaves, and the order of its writes: 0
\* for the pad's position, k for the write_back of copper layer k
MappedPad_write_back(sk, m, pad) ==
    WriteBackLayers(sk, m.mapped_geometry,
                    [pad |-> [pad EXCEPT !.position = _v2(sk, m.position)],
                     writes |-> <<0>>],
                    1)

(***************************************************************************)
(* Dimension mapper, pass 1 (dimensions.py).                               *)
(***************************************************************************)
\* a kipy Dimension: the fields the mapper reads and writes
KiDimension(type, prefix, sfx, override_text, start, end) ==
    [type |-> type, prefix |-> prefix, suffix |-> sfx,
     override_text |-> override_text, start |-> start, end |-> end,
     text_position |-> start, alignment |-> 1, center |-> start]

\* an insertion-ordered dict as a sequence of [key, val]
DictIndex(d, key) ==
    IF \E i \in 1..Len(d) : d[i].key = key
    THEN CHOOSE i \in 1..Len(d) : d[i].key = key
    ELSE 0

DictSet(d, key, val) ==
    IF DictIndex(d, key) = 0
    THEN Append(d, [key |-> key, val |-> val])
    ELSE [d EXCEPT ![DictIndex(d, key)] = [key |-> key, val |-> val]]

DictHas(d, key) == DictIndex(d, key) # 0

DictGet(d, key) == d[DictIndex(d, key)].val

MappedEdgeDimension(source, name, line) ==
    [source |-> source, name |-> name, line |-> line]

MappedPointDimension(source, name, point) ==
    [source |-> source, name |-> name, point |-> point]

DimensionMapping(edges, pts, all_points, edge_index) ==
    [edges |-> edges, points |-> pts,
     all_points |-> all_points, edge_index |-> edge_index]

\* MappedEdgeDimension.map_back: the dimension it leaves
MappedEdgeDimension_map_back(sk, entry, dim) ==
    [dim EXCEPT !.start = _v2(sk, sk.ents[entry.line].a),
                !.end = _v2(sk, sk.ents[entry.line].b)]

\* MappedPointDimension.map_back: the dimension it leaves
MappedPointDimension_map_back(sk, entry, dim) ==
    LET original_offset == <<dim.end[1] - dim.start[1],
                             dim.end[2] - dim.start[2]>>
        original_text_offset == <<dim.text_position[1] - dim.start[1],
                                  dim.text_position[2] - dim.start[2]>>
        start == _v2(sk, entry.point)
    IN  [dim EXCEPT !.start = start,
                    !.end = <<start[1] + original_offset[1],
                              start[2] + original_offset[2]>>,
                    !.text_position = <<start[1] + original_text_offset[1],
                                        start[2] + original_text_offset[2]>>]

RECURSIVE MapBackEdges(_, _, _, _)
MapBackEdges(sk, edges, dimensions, i) ==
    IF i > Len(edges) THEN dimensions
    ELSE MapBackEdges(sk, edges,
                      [dimensions EXCEPT ![edges[i].val.source] =
                          MappedEdgeDimension_map_back(sk, edges[i].val, @)],
                      i + 1)

RECURSIVE MapBackPoints(_, _, _, _)
MapBackPoints(sk, pts, dimensions, i) ==
    IF i > Len(pts) THEN dimensions
    ELSE MapBackPoints(sk, pts,
                       [dimensions EXCEPT ![pts[i].val.source] =
                           MappedPointDimension_map_back(sk, pts[i].val, @)],
                       i + 1)

\* DimensionMapping.map_back: the dimensions after the call and the list it
\* returned
DimensionMapping_map_back(sk, dim_map, dimensions) ==
    [dims |-> MapBackPoints(sk, dim_map.points,
                            MapBackEdges(sk, dim_map.edges, dimensions, 1), 1),
     modified |-> [i \in 1..Len(dim_map.edges) |-> dim_map.edges[i].val.source]
                  \o [i \in 1..Len(dim_map.points) |->
                        dim_map.points[i].val.source]]

RECURSIVE FindFrom(_, _, _, _, _, _)
FindFrom(sk, u, v, all_points, tolerance, i) ==
    IF i > Len(all_points) THEN 0
    ELSE LET pt == sk.ents[all_points[i]]
         IN  IF (pt.u - u) * (pt.u - u) + (pt.v - v) * (pt.v - v)
                    <= tolerance * tolerance
             THEN all_points[i]
             ELSE FindFrom(sk, u, v, all_points, tolerance, i + 1)

\* mutant: the last point within tolerance instead of the first
_find_point_last(sk, u, v, all_points, tolerance) ==
    LET near == {i \in 1..Len(all_points) :
                    LET pt == sk.ents[all_points[i]]
                    IN  (pt.u - u) * (pt.u - u) + (pt.v - v) * (pt.v - v)
                            <= tolerance * tolerance}
    IN  IF near = {} THEN 0
        ELSE all_points[CHOOSE i \in near : \A j \in near : i >= j]

\* _find_point: the handle of the first point within tolerance, 0 for None
_find_point(sk, u, v, all_points, tolerance) ==
    FindFrom(sk, u, v, all_points, tolerance, 1)

NoName == [some |-> FALSE, name |-> <<>>]

SomeName(n) == [some |-> TRUE, name |-> n]

\* _extract_name: None, or the name
_extract_name(dim) ==
    IF dim.type = "leader"
    THEN SomeName(split(dim.override_text, ",")[1])
    ELSE IF dim.prefix # <<>> /\ dim.prefix[Len(dim.prefix)] = ":"
    THEN SomeName(strip(SubSeq(dim.prefix, 1, Len(dim.prefix) - 1)))
    ELSE NoName

_get_suffix(dim) ==
    IF dim.type = "leader"
    THEN LET parts == split1(dim.override_text, ",")
         IN  IF Len(parts) > 1 THEN parts[2] ELSE <<>>
    ELSE dim.suffix

RECURSIVE IndexLines(_, _, _)
IndexLines(sk, ls, index) ==
    IF ls = <<>> THEN index
    ELSE LET l == Head(ls)
         IN  IndexLines(sk, Tail(ls),
                        DictSet(index, {sk.ents[l].a, sk.ents[l].b}, l))

\* _build_lookup: <<all_points, edge_index>>
_build_lookup(sk, mapped) ==
    <<Flatten([i \in 1..Len(mapped) |-> points(mapped[i])]),
      IndexLines(sk, Flatten([i \in 1..Len(mapped) |-> lines(mapped[i])]), <<>>)>>

RECURSIVE CenterPass(_, _, _, _)
\* the CenterDimension loop: [sk, all_points]
CenterPass(sk, dimensions, all_points, i) ==
    IF i > Len(dimensions) THEN [sk |-> sk, all_points |-> all_points]
    ELSE IF dimensions[i].type = "center"
    THEN LET s1 == Sketch_point(sk, _to_mm(dimensions[i].center[1]),
                                _to_mm(dimensions[i].center[2]), FALSE)
             s2 == Sketch_dragged(s1, LastEnt(s1))
         IN  CenterPass(s2, dimensions, Append(all_points, LastEnt(s1)), i + 1)
    ELSE CenterPass(sk, dimensions, all_points, i + 1)

\* mutant: no continue after an edges entry, so the endpoints are
\* registered as well
NameOne_fall_through(sk, dim, i, result, tolerance) ==
    LET nm == _extract_name(dim)
        name == nm.name
        p_start == _find_point(sk, _to_mm(dim.start[1]), _to_mm(dim.start[2]),
                               result.all_points, tolerance)
        p_end == _find_point(sk, _to_mm(dim.end[1]), _to_mm(dim.end[2]),
                             result.all_points, tolerance)
        key == {p_start, p_end}
        kstart == name \o <<":", "s", "t", "a", "r", "t">>
        kend == name \o <<":", "e", "n", "d">>
        r1 == IF p_start # 0 /\ p_end # 0 /\ DictHas(result.edge_index, key)
              THEN [result EXCEPT !.edges =
                      DictSet(@, name, MappedEdgeDimension(
                          i, name, DictGet(result.edge_index, key)))]
              ELSE result
        r2 == IF p_start # 0
              THEN [r1 EXCEPT !.points =
                      DictSet(@, kstart,
                              MappedPointDimension(i, kstart, p_start))]
              ELSE r1
        r3 == IF p_end # 0
              THEN [r2 EXCEPT !.points =
                      DictSet(@, kend, MappedPointDimension(i, kend, p_end))]
              ELSE r2
    IN  IF ~nm.some THEN result
        ELSE IF dim.type \in {"aligned", "orthogonal"} THEN r3
        ELSE IF dim.type = "leader"
        THEN IF p_start # 0
             THEN [result EXCEPT !.points =
                     DictSet(@, name, MappedPointDimension(i, name, p_start))]
             ELSE result
        ELSE result

\* the body of the naming loop for dimension i
NameOne(sk, dim, i, result, tolerance) ==
    LET nm == _extract_name(dim)
        name == nm.name
        p_start == _find_point(sk, _to_mm(dim.start[1]), _to_mm(dim.start[2]),
                               result.all_points, tolerance)
        p_end == _find_point(sk, _to_mm(dim.end[1]), _to_mm(dim.end[2]),
                             result.all_points, tolerance)
        key == {p_start, p_end}
        kstart == name \o <<":", "s", "t", "a", "r", "t">>
        kend == name \o <<":", "e", "n", "d">>
    IN  IF ~nm.some THEN result
        ELSE IF dim.type \in {"aligned", "orthogonal"}
        THEN IF p_start # 0 /\ p_end # 0
             THEN IF DictHas(result.edge_index, key)
                  THEN [result EXCEPT !.edges =
                          DictSet(@, name, MappedEdgeDimension(
                              i, name, DictGet(result.edge_index, key)))]
                  ELSE [result EXCEPT !.points =
                          DictSet(DictSet(@, kstart,
                                      MappedPointDimension(i, kstart, p_start)),
                                  kend, MappedPointDimension(i, kend, p_end))]
             ELSE IF p_start # 0
             THEN [result EXCEPT !.points =
                     DictSet(@, kstart, MappedPointDimension(i, kstart, p_start))]
             ELSE IF p_end # 0
             THEN [result EXCEPT !.points =
                     DictSet(@, kend, MappedPointDimension(i, kend, p_end))]
             ELSE result
        ELSE IF dim.type = "leader"
        THEN IF p_start # 0
             THEN [result EXCEPT !.points =
                     DictSet(@, name, MappedPointDimension(i, name, p_start))]
             ELSE result
        ELSE result

\* mutant: the name loop ends after the first dimension
NamePass_first(sk, dimensions, result, tolerance, i) ==
    IF dimensions = <<>> THEN result
    ELSE NameOne(sk, dimensions[1], 1, result, tolerance)

RECURSIVE NamePass(_, _, _, _, _)
NamePass(sk, dimensions, result, tolerance, i) ==
    IF i > Len(dimensions) THEN result
    ELSE NamePass(sk, dimensions,
                  NameOne(sk, dimensions[i], i, result, tolerance),
                  tolerance, i + 1)

\* map_dimensions: [sk, dim_map]
map_dimensions(sk, dimensions, mapped, tolerance) ==
    LET lookup == _build_lookup(sk, mapped)
        c == CenterPass(sk, dimensions, lookup[1], 1)
    IN  [sk |-> c.sk,
         dim_map |-> NamePass(c.sk, dimensions,
                              DimensionMapping(<<>>, <<>>, c.all_points, lookup[2]),
                              tolerance, 1)]

(***************************************************************************)
(* Suffix constraint language: reference resolution and the three apply    *)
(* methods of each ConstraintSpec (dimensions.py).  A method call yields   *)
(* [ok, err, sk]: the sketch after it, and the error it raised if any.     *)
(***************************************************************************)
Done(sk) == [ok |-> TRUE, err |-> NoError, sk |-> sk]

Failed(sk, err) == [ok |-> FALSE, err |-> err, sk |-> sk]

\* _resolve_line: [ok, err, line]
_resolve_line(name, dim_map, context) ==
    IF DictHas(dim_map.edges, name)
    THEN [ok |-> TRUE, err |-> NoError, line |-> DictGet(dim_map.edges, name).line]
    ELSE [ok |-> FALSE,
          err |-> Error("UnknownReference", name, context, "edge", "None"),
          line |-> 0]

\* mutant: a point name is looked up among the edges too
Resolve_point_or_edge(name, dim_map, context) ==
    IF DictHas(dim_map.points, name)
    THEN [ok |-> TRUE, err |-> NoError,
          point |-> DictGet(dim_map.points, name).point]
    ELSE IF DictHas(dim_map.edges, name)
    THEN [ok |-> TRUE, err |-> NoError,
          point |-> DictGet(dim_map.edges, name).line]
    ELSE [ok |-> FALSE,
          err |-> Error("UnknownReference", name, context, "point", "None"),
          point |-> 0]

\* _resolve_point: [ok, err, point]
_resolve_point(name, dim_map, context) ==
    IF DictHas(dim_map.points, name)
    THEN [ok |-> TRUE, err |-> NoError,
          point |-> DictGet(dim_map.points, name).point]
    ELSE [ok |-> FALSE,
          err |-> Error("UnknownReference", name, context, "point", "None"),
          point |-> 0]

\* the default methods of ConstraintSpec
WrongContext(sk, spec, name, method) ==
    Failed(sk, Error("WrongContext", <<>>, name, spec.kind, method))

\* mutant: Midpoint also takes a line, making the line's own name a midpoint
Midpoint_on_line(sk, spec, line, name, dim_map) ==
    IF spec.kind = "Midpoint"
    THEN Done(Sketch_midpoint(sk, sk.ents[line].a, line))
    ELSE WrongContext(sk, spec, name, "apply_to_line")

\* the classes that do not override apply_to_line
Default_apply_to_line(sk, spec, line, name, dim_map) ==
    WrongContext(sk, spec, name, "apply_to_line")

apply_to_line(sk, spec, line, name, dim_map) ==
    LET other == _resolve_line(spec.other, dim_map, name)
    IN  CASE spec.kind = "Distance" ->
                Done(Sketch_distance(sk, sk.ents[line].a, sk.ents[line].b,
                                     spec.value))
          [] spec.kind = "DistanceProj" ->
                Done(Sketch_distance_proj(sk, sk.ents[line].a, sk.ents[line].b,
                                          spec.axis, spec.value))
          [] spec.kind = "Parallel" ->
                IF other.ok THEN Done(Sketch_parallel(sk, line, other.line))
                ELSE Failed(sk, other.err)
          [] spec.kind = "Perpendicular" ->
                IF other.ok THEN Done(Sketch_perpendicular(sk, line, other.line))
                ELSE Failed(sk, other.err)
          [] spec.kind = "Equal" ->
                IF other.ok THEN Done(Sketch_equal(sk, line, other.line))
                ELSE Failed(sk, other.err)
          [] spec.kind = "Vertical" -> Done(Sketch_vertical(sk, line))
          [] spec.kind = "Horizontal" -> Done(Sketch_horizontal(sk, line))
          [] OTHER -> Default_apply_to_line(sk, spec, line, name, dim_map)

apply_to_two_points(sk, spec, p1, p2, name, dim_map) ==
    CASE spec.kind = "Distance" -> Done(Sketch_distance(sk, p1, p2, spec.value))
      [] spec.kind = "DistanceProj" ->
            Done(Sketch_distance_proj(sk, p1, p2, spec.axis, spec.value))
      [] OTHER -> WrongContext(sk, spec, name, "apply_to_two_points")

\* Coincident.apply_to_point
Coincident_apply_to_point(sk, spec, pt, name, dim_map) ==
    LET other == _resolve_point(spec.other, dim_map, name)
    IN  IF other.ok THEN Done(Sketch_coincident(sk, pt, other.point))
        ELSE Failed(sk, other.err)

apply_to_point(sk, spec, pt, name, dim_map) ==
    LET otherl == _resolve_line(spec.other, dim_map, name)
    IN  CASE spec.kind = "Coincident" ->
                Coincident_apply_to_point(sk, spec, pt, name, dim_map)
          [] spec.kind = "Midpoint" ->
                IF otherl.ok THEN Done(Sketch_midpoint(sk, pt, otherl.line))
                ELSE Failed(sk, otherl.err)
          [] OTHER -> WrongContext(sk, spec, name, "apply_to_point")

(***************************************************************************)
(* Dimension mapper, pass 2 (dimensions.py).                               *)
(***************************************************************************)
\* _get_proj_direction: <<>> for None, else the direction.  The unit vector
\* (dx / length, dy / length) is kept as the shortest whole vector along it,
\* which is the unit vector itself for an axis-parallel dimension.
_get_proj_direction(dim) ==
    LET dx == _to_mm(dim.end[1] - dim.start[1])
        dy == _to_mm(dim.end[2] - dim.start[2])
        g == Gcd(Abs(dx), Abs(dy))
    IN  IF dim.type = "orthogonal"
        THEN IF dim.alignment = 1 THEN <<1, 0>>
             ELSE IF dim.alignment = 2 THEN <<0, 1>>
             ELSE <<>>
        ELSE IF dim.type = "aligned"
        THEN IF dx # 0 \/ dy # 0 THEN <<dx \div g, dy \div g>> ELSE <<>>
        ELSE <<>>

\* _make_axis_line: the sketch with the two fixed points and the line added
_make_axis_line(sk, dx, dy) ==
    LET s1 == Sketch_point(sk, 0, 0, TRUE)
        s2 == Sketch_point(s1, dx, dy, TRUE)
    IN  Sketch_line(s2, LastEnt(s1), LastEnt(s2))

\* _directions_parallel: abs(cross of the unit vectors) < 1e-6, which for
\* whole-millimetre vectors is cross = 0
_directions_parallel(sk, dim, line) ==
    LET ddx == _to_mm(dim.end[1] - dim.start[1])
        ddy == _to_mm(dim.end[2] - dim.start[2])
        p1 == sk.ents[sk.ents[line].a]
        p2 == sk.ents[sk.ents[line].b]
        ldx == p2.u - p1.u
        ldy == p2.v - p1.v
    IN  IF ddx = 0 /\ ddy = 0 THEN TRUE
        ELSE IF ldx = 0 /\ ldy = 0 THEN TRUE
        ELSE ddx * ldy - ddy * ldx = 0

Unnamed == <<"<", "u", "n", "n", "a", "m", "e", "d", ">">>

\* the state of one run of pass 2: the sketch, the list being returned, the
\* method calls made so far (dimension, spec, method, target entities), and
\* the error that ended the run
PassState(sk) ==
    [ok |-> TRUE, err |-> NoError, sk |-> sk, constraints |-> <<>>,
     calls |-> <<>>]

Dispatch(sk, spec, via, target, name, dim_map) ==
    CASE via = "apply_to_line" ->
            apply_to_line(sk, spec, target[1], name, dim_map)
      [] via = "apply_to_two_points" ->
            apply_to_two_points(sk, spec, target[1], target[2], name, dim_map)
      [] via = "apply_to_point" ->
            apply_to_point(sk, spec, target[1], name, dim_map)

RECURSIVE ApplySpecs(_, _, _, _, _, _, _)
\* for spec in specs: constraints.append(spec.apply_to_...(...))
ApplySpecs(st, i, specs, via, target, name, dim_map) ==
    IF specs = <<>> THEN st
    ELSE LET r == Dispatch(st.sk, Head(specs), via, target, name, dim_map)
             call == [dim |-> i, spec |-> Head(specs), via |-> via,
                      target |-> target, ok |-> r.ok]
         IN  IF r.ok
             THEN ApplySpecs([st EXCEPT !.sk = r.sk,
                                        !.constraints = Append(@, LastCon(r.sk)),
                                        !.calls = Append(@, call)],
                             i, Tail(specs), via, target, name, dim_map)
             ELSE [st EXCEPT !.ok = FALSE, !.err = r.err, !.sk = r.sk,
                             !.calls = Append(@, call)]

\* mutant: a dimension whose endpoints both resolve always goes to the two
\* points, connected or not
ApplyConnected_as_points(st, i, specs, line, p_start, p_end, name, dim_map) ==
    ApplySpecs(st, i, specs, "apply_to_two_points", <<p_start, p_end>>,
               name, dim_map)

\* both endpoints resolved: through the connecting line if there is one
ApplyConnected(st, i, specs, line, p_start, p_end, name, dim_map) ==
    IF line # 0
    THEN ApplySpecs(st, i, specs, "apply_to_line", <<line>>, name, dim_map)
    ELSE ApplySpecs(st, i, specs, "apply_to_two_points", <<p_start, p_end>>,
                    name, dim_map)

\* mutant: only an orthogonal dimension is projected
ProjectSpecs_orthogonal(st, dim, line, specs) ==
    LET proj_dir == _get_proj_direction(dim)
        project == /\ dim.type = "orthogonal"
                   /\ \E k \in 1..Len(specs) : specs[k].kind = "Distance"
                   /\ proj_dir # <<>>
        axis == _make_axis_line(st.sk, proj_dir[1], proj_dir[2])
    IN  IF project
        THEN [st |-> [st EXCEPT !.sk = axis],
              specs |-> [k \in 1..Len(specs) |->
                           IF specs[k].kind = "Distance"
                           THEN [specs[k] EXCEPT !.kind = "DistanceProj",
                                                 !.axis = LastEnt(axis)]
                           ELSE specs[k]]]
        ELSE [st |-> st, specs |-> specs]

\* the projection of the Distance specs of a dimension whose endpoints
\* both resolve: the pass state and the specs to apply
ProjectSpecs(st, dim, line, specs) ==
    LET use_proj == \/ dim.type = "orthogonal"
                    \/ /\ dim.type = "aligned"
                       /\ line # 0
                       /\ ~_directions_parallel(st.sk, dim, line)
        proj_dir == _get_proj_direction(dim)
        project == /\ use_proj
                   /\ \E k \in 1..Len(specs) : specs[k].kind = "Distance"
                   /\ proj_dir # <<>>
        axis == _make_axis_line(st.sk, proj_dir[1], proj_dir[2])
    IN  IF project
        THEN [st |-> [st EXCEPT !.sk = axis],
              specs |-> [k \in 1..Len(specs) |->
                           IF specs[k].kind = "Distance"
                           THEN [specs[k] EXCEPT !.kind = "DistanceProj",
                                                 !.axis = LastEnt(axis)]
                           ELSE specs[k]]]
        ELSE [st |-> st, specs |-> specs]

\* the dispatch of the parsed specs of dimension i on its type and on the
\* endpoints that resolved
ApplyTyped(st, dim, i, dim_map, name, specs, p_start, p_end) ==
    LET key == {p_start, p_end}
        line == IF DictHas(dim_map.edge_index, key)
                THEN DictGet(dim_map.edge_index, key) ELSE 0
        pr == ProjectSpecs(st, dim, line, specs)
    IN  IF dim.type \in {"aligned", "orthogonal"}
        THEN IF p_start # 0 /\ p_end # 0
             THEN ApplyConnected(pr.st, i, pr.specs, line, p_start, p_end,
                                 name, dim_map)
             ELSE IF p_start # 0 \/ p_end # 0
             THEN ApplySpecs(st, i, specs, "apply_to_point",
                             <<IF p_start # 0 THEN p_start ELSE p_end>>,
                             name, dim_map)
             ELSE st
        ELSE IF dim.type = "leader" /\ p_start # 0
        THEN ApplySpecs(st, i, specs, "apply_to_point", <<p_start>>,
                        name, dim_map)
        ELSE st

\* the handles of the points of a sketch, in creation order
SketchPointHandles(sk) ==
    SelectSeq([k \in 1..Len(sk.ents) |-> k],
              LAMBDA k : sk.ents[k].kind = "point")

\* mutant: the endpoints are looked up among all the points of the sketch
ApplyParsed_any_point(st, dim, i, dim_map, tolerance, name, parsed) ==
    IF ~parsed.ok THEN [st EXCEPT !.ok = FALSE, !.err = parsed.err]
    ELSE ApplyTyped(st, dim, i, dim_map, name, parsed.specs,
                    _find_point(st.sk, _to_mm(dim.start[1]),
                                _to_mm(dim.start[2]),
                                SketchPointHandles(st.sk), tolerance),
                    _find_point(st.sk, _to_mm(dim.end[1]),
                                _to_mm(dim.end[2]),
                                SketchPointHandles(st.sk), tolerance))

\* specs = parse_suffix(suffix), which may raise, and the endpoint lookups
ApplyParsed(st, dim, i, dim_map, tolerance, name, parsed) ==
    IF ~parsed.ok THEN [st EXCEPT !.ok = FALSE, !.err = parsed.err]
    ELSE ApplyTyped(st, dim, i, dim_map, name, parsed.specs,
                    _find_point(st.sk, _to_mm(dim.start[1]),
                                _to_mm(dim.start[2]),
                                dim_map.all_points, tolerance),
                    _find_point(st.sk, _to_mm(dim.end[1]),
                                _to_mm(dim.end[2]),
                                dim_map.all_points, tolerance))

\* the body of the loop of apply_dimension_constraints for dimension i
ApplyOne(st, dim, i, dim_map, tolerance) ==
    LET sfx == _get_suffix(dim)
        nm == _extract_name(dim)
        name == IF nm.some /\ nm.name # <<>> THEN nm.name ELSE Unnamed
    IN  IF strip(sfx) = <<>> THEN st
        ELSE ApplyParsed(st, dim, i, dim_map, tolerance, name,
                         parse_suffix(sfx))

RECURSIVE ApplyFrom(_, _, _, _, _)
ApplyFrom(st, dimensions, dim_map, tolerance, i) ==
    IF i > Len(dimensions) \/ ~st.ok THEN st
    ELSE ApplyFrom(ApplyOne(st, dimensions[i], i, dim_map, tolerance),
                   dimensions, dim_map, tolerance, i + 1)

\* apply_dimension_constraints: [ok, err, sk, constraints, calls]
apply_dimension_constraints(sk, dimensions, dim_map, tolerance) ==
    ApplyFrom(PassState(sk), dimensions, dim_map, tolerance, 1)

(***************************************************************************)
(* The values of the variables before anything was loaded or called.       *)
(***************************************************************************)
DefaultTolerance == 0

Board(s, p, d) == [shapes |-> s, pads |-> p, dims |-> d]

NoDimMap == DimensionMapping(<<>>, <<>>, <<>>, <<>>)

NoPass ==
    [called |-> FALSE, ok |-> TRUE, err |-> NoError, before |-> Sketch_init,
     constraints |-> <<>>, calls |-> <<>>]

NoCall ==
    [made |-> FALSE, spec |-> NoSpec, via |-> "None", target |-> <<>>,
     name |-> <<>>, before |-> Sketch_init, ok |-> TRUE, err |-> NoError]

NoWriteback ==
    [op |-> "None", result |-> TRUE, raised |-> FALSE, returned |-> <<>>]

NotCalled == [called |-> FALSE, ok |-> TRUE, err |-> NoError, specs |-> <<>>]

NoParse == suffix = <<>> /\ presult = NotCalled

NoBoard ==
    /\ shapes = <<>>
    /\ pads = <<>>
    /\ dims = <<>>
    /\ input = Board(<<>>, <<>>, <<>>)
    /\ tol = DefaultTolerance

NoSketch ==
    /\ sketch = Sketch_init
    /\ shape_maps = <<>>
    /\ pad_maps = <<>>
    /\ registry = NoDimMap
    /\ pc = "start"

NoMapCall ==
    [op |-> "None", ok |-> TRUE, err |-> NoError, before |-> Sketch_init,
     index |-> 0, writes |-> <<>>]

\* one Sketch object has been made; it made the normal the workspace holds
FirstSketch == [count |-> 1, ents |-> <<1>>, cons |-> <<>>, solved |-> <<>>]

NoCalls ==
    /\ owners = FirstSketch
    /\ pass2 = NoPass
    /\ direct = NoCall
    /\ results = <<>>
    /\ mapcall = NoMapCall
    /\ wb = NoWriteback

(***************************************************************************)
(* SpecParse: parse_suffix called on every text of at most MaxLen          *)
(* characters over ParseAlphabet.                                          *)
(***************************************************************************)
ParseAlphabet == {"v", "m", "(", ")", ",", " ", "=", "1"}

Texts(n) == UNION {[1..k -> ParseAlphabet] : k \in 0..n}

\* longer suffixes: the long and short name of every constraint, names and
\* arguments of several characters, whitespace around tokens, a decimal
\* distance, arguments that are no identifiers, and empty tokens
LongTexts ==
    {<<"v", "e", "r", "t">>,
     <<"h", "o", "r", "i", "z">>,
     <<"p", "a", "r", "(", "a", ")">>,
     <<"p", "e", "r", "p", "(", "a", ")">>,
     <<"c", "o", "i", "n", "(", "a", ")">>,
     <<"e", "q", "(", "a", ")">>,
     <<"m", "i", "d", "(", "a", ")">>,
     <<"p", "(", "a", ")">>,
     <<"x", "(", "a", ")">>,
     <<"c", "(", "a", ")">>,
     <<"e", "(", "a", ")">>,
     <<"m", "(", "a", ")">>,
     <<" ", "p", "a", "r", "(", "a", ")", " ", ",", " ", "h", "o", "r", "i", "z">>,
     <<"p", "(", "a", ")", ",", " ", "h">>,
     <<"=", "1", ".", "5", "0", "m", "m", ",", " ", "v", "e", "r", "t">>,
     <<"=", "1", ".", "5", "m", "m", ",", "v">>,
     <<"p", "(", "a", " ", "b", ")">>,
     <<"p", "(", "1", "-", "2", ")">>,
     <<"p", "(", "a", ".", "b", ")">>,
     <<"p", "(", "a", "_", "1", ")">>,
     <<"p", "(", " ", "a", " ", ")">>,
     <<"p", "a", "r", "(", "a", ")", ",">>,
     <<"h", ",", ",", "v">>}

Returned(r) == [called |-> TRUE, ok |-> r.ok, err |-> r.err, specs |-> r.specs]

InitParse ==
    /\ suffix \in Texts(MaxLen) \cup LongTexts
    /\ presult = NotCalled
    /\ NoBoard
    /\ NoSketch
    /\ NoCalls

ParseSuffix ==
    /\ ~presult.called
    /\ presult' = Returned(parse_suffix(suffix))
    /\ UNCHANGED <<suffix, boardVars, tol, owners, mapcall, sketch, mapVars, pc,
                   pass2, direct, results, wb>>

NextParse == ParseSuffix

SpecParse == InitParse /\ [][NextParse]_vars

(***************************************************************************)
(* C10.  parse_suffix classifies every failing token.  For a text that is  *)
(* not blank, the first comma-separated token, from the left, that is      *)
(* empty after trimming, or has the form name(arg) with a name that is no  *)
(* constraint name, or is otherwise neither a distance literal nor one of  *)
(* v, vert, h, horiz, decides the error that is raised (empty token,       *)
(* unknown constraint, unrecognized token, in that order of the cases),    *)
(* and no list of specs is returned.                                       *)
(***************************************************************************)
CommaAt(s) == {i \in 1..Len(s) : s[i] = ","}

\* the k-th comma-separated token of s
TokenAt(s, k) ==
    LET cs == CommaAt(s)
        lo == IF k = 1 THEN 0
              ELSE CHOOSE i \in cs : Cardinality({j \in cs : j < i}) = k - 2
        hi == IF k = Cardinality(cs) + 1 THEN Len(s) + 1
              ELSE CHOOSE i \in cs : Cardinality({j \in cs : j < i}) = k - 1
    IN  SubSeq(s, lo + 1, hi - 1)

\* t without the whitespace around it
Trimmed(t) ==
    LET ink == {i \in 1..Len(t) : t[i] \notin Whitespace}
    IN  IF ink = {} THEN <<>>
        ELSE SubSeq(t, CHOOSE i \in ink : \A j \in ink : i <= j,
                       CHOOSE i \in ink : \A j \in ink : i >= j)

ConstraintNames ==
    {<<"p">>, <<"p", "a", "r">>, <<"x">>, <<"p", "e", "r", "p">>,
     <<"c">>, <<"c", "o", "i", "n">>, <<"e">>, <<"e", "q">>,
     <<"m">>, <<"m", "i", "d">>}

BareNames ==
    {<<"v">>, <<"v", "e", "r", "t">>, <<"h">>, <<"h", "o", "r", "i", "z">>}

\* name(arg): a word, then a parenthesised, non-empty argument
HasFuncForm(t) ==
    \E k \in 2..(Len(t) - 2) :
        /\ \A i \in 1..(k - 1) : t[i] \in WordChars
        /\ t[k] = "("
        /\ t[Len(t)] = ")"
        /\ \A i \in (k + 1)..(Len(t) - 1) : t[i] # ")"

FuncName(t) == SubSeq(t, 1, (CHOOSE k \in 1..Len(t) : t[k] = "(") - 1)

\* =<digits>[.<digits>]mm
IsDistanceLiteral(t) ==
    \E n \in 1..(Len(t) - 3) :
        /\ t[1] = "="
        /\ SubSeq(t, Len(t) - 1, Len(t)) = <<"m", "m">>
        /\ Len(t) = n + 3
        /\ LET num == SubSeq(t, 2, n + 1)
               dots == {i \in 1..n : num[i] = "."}
           IN  /\ \A i \in (1..n) \ dots : num[i] \in Digits
               /\ Cardinality(dots) <= 1
               /\ 1 \notin dots
               /\ n \notin dots

\* the error a token must raise, "None" for a token that must not fail here
TokenError(tok) ==
    LET t == Trimmed(tok)
    IN  IF t = <<>> THEN "EmptyToken"
        ELSE IF HasFuncForm(t)
        THEN IF FuncName(t) \in ConstraintNames THEN "None"
             ELSE "UnknownConstraint"
        ELSE IF IsDistanceLiteral(t) \/ t \in BareNames THEN "None"
        ELSE "UnrecognizedToken"

IsBlank(s) == \A i \in 1..Len(s) : s[i] \in Whitespace

FailingTokens(s) ==
    {k \in 1..(Cardinality(CommaAt(s)) + 1) : TokenError(TokenAt(s, k)) # "None"}

FirstFailing(s) == CHOOSE k \in FailingTokens(s) : \A j \in FailingTokens(s) : k <= j

C10_FailingTokenClassified ==
    (presult.called /\ ~IsBlank(suffix) /\ FailingTokens(suffix) # {})
        => /\ ~presult.ok
           /\ presult.err.kind = TokenError(TokenAt(suffix, FirstFailing(suffix)))
           /\ presult.specs = <<>>

\* two failing tokens with different errors: the first one decides
C10_Witness ==
    /\ presult.called
    /\ ~presult.ok
    /\ presult.err.kind = "UnknownConstraint"
    /\ \E k \in FailingTokens(suffix) :
          /\ k > FirstFailing(suffix)
          /\ TokenError(TokenAt(suffix, k)) = "EmptyToken"

(***************************************************************************)
(* The suffix grammar: identifier := [A-Za-z_][A-Za-z0-9_]*, a token is a  *)
(* distance literal, one of v, vert, h, horiz, or name(identifier) with    *)
(* the name of a constraint.                                               *)
(***************************************************************************)
Min2(a, b) == IF a < b THEN a ELSE b

IsIdentifier(t) ==
    /\ t # <<>>
    /\ t[1] \in Letters \cup {"_"}
    /\ \A i \in 1..Len(t) : t[i] \in WordChars

FuncArg(t) ==
    SubSeq(t, (CHOOSE k \in 1..Len(t) : t[k] = "(") + 1, Len(t) - 1)

LegalToken(t) ==
    \/ IsDistanceLiteral(t)
    \/ t \in BareNames
    \/ /\ HasFuncForm(t)
       /\ FuncName(t) \in ConstraintNames
       /\ IsIdentifier(FuncArg(t))

NumTokens(s) == Cardinality(CommaAt(s)) + 1

LegalSuffix(s) ==
    \A k \in 1..NumTokens(s) : LegalToken(Trimmed(TokenAt(s, k)))

\* the constraint a name stands for, by the table of aliases
KindOfName(name) ==
    CASE name \in {<<"v">>, <<"v", "e", "r", "t">>} -> "Vertical"
      [] name \in {<<"h">>, <<"h", "o", "r", "i", "z">>} -> "Horizontal"
      [] name \in {<<"p">>, <<"p", "a", "r">>} -> "Parallel"
      [] name \in {<<"x">>, <<"p", "e", "r", "p">>} -> "Perpendicular"
      [] name \in {<<"c">>, <<"c", "o", "i", "n">>} -> "Coincident"
      [] name \in {<<"e">>, <<"e", "q">>} -> "Equal"
      [] name \in {<<"m">>, <<"m", "i", "d">>} -> "Midpoint"

\* the digits of a number text without its point, and how many follow it
NumberDigits(num) ==
    LET dots == {i \in 1..Len(num) : num[i] = "."}
        k == IF dots = {} THEN Len(num) + 1 ELSE CHOOSE i \in dots : TRUE
    IN  [digits |-> SubSeq(num, 1, k - 1) \o SubSeq(num, k + 1, Len(num)),
         places |-> Len(num) - Min2(k, Len(num))]

\* spec is the spec the legal token t stands for
StandsFor(spec, t) ==
    IF IsDistanceLiteral(t)
    THEN LET nd == NumberDigits(SubSeq(t, 2, Len(t) - 2))
         IN  /\ spec.kind = "Distance"
             /\ spec.other = <<>>
             /\ spec.value.n * Pow10(nd.places)
                   = DigitsValue(nd.digits) * Pow10(spec.value.e)
    ELSE IF t \in BareNames
    THEN spec.kind = KindOfName(t) /\ spec.other = <<>>
    ELSE spec.kind = KindOfName(FuncName(t)) /\ spec.other = FuncArg(t)

\* C11: a blank suffix parses to the empty list; a suffix whose tokens are
\* all legal parses to one spec per comma-separated token, in token order,
\* each the spec its token stands for once the whitespace around the token
\* is dropped, the short and the long name of a constraint standing for the
\* same spec
C11_OneSpecPerToken ==
    presult.called
        => /\ IsBlank(suffix) => (presult.ok /\ presult.specs = <<>>)
           /\ (~IsBlank(suffix) /\ LegalSuffix(suffix))
                 => /\ presult.ok
                    /\ Len(presult.specs) = NumTokens(suffix)
                    /\ \A k \in 1..NumTokens(suffix) :
                          StandsFor(presult.specs[k],
                                    Trimmed(TokenAt(suffix, k)))

\* a long name and a bare long name, with whitespace around both tokens
C11_Witness ==
    /\ presult.called
    /\ suffix = <<" ", "p", "a", "r", "(", "a", ")", " ", ",", " ",
                  "h", "o", "r", "i", "z">>
    /\ Len(presult.specs) = 2

\* C12: a token of the form name(argument) whose argument is no identifier
\* makes parse_suffix fail
C12_ArgumentIsIdentifier ==
    (/\ presult.called
     /\ \E k \in 1..NumTokens(suffix) :
           LET t == Trimmed(TokenAt(suffix, k))
           IN  HasFuncForm(t) /\ ~IsIdentifier(FuncArg(t)))
        => ~presult.ok

(***************************************************************************)
(* SpecApply: the methods of the constraint specs called directly, as the  *)
(* tests of tests/test_dimensions.py call them, on a sketch holding the    *)
(* edge "a", a second line and the point "b", with every registry that     *)
(* knows some of those names.                                              *)
(***************************************************************************)
\* _make_line of the tests
_make_line(sk, x1, y1, x2, y2) ==
    LET s1 == Sketch_point(sk, x1, y1, FALSE)
        s2 == Sketch_point(s1, x2, y2, FALSE)
    IN  Sketch_line(s2, LastEnt(s1), LastEnt(s2))

Name_a == <<"a">>

Name_b == <<"b">>

Name_zz == <<"z", "z">>

Name_ctx == <<"d">>

\* the sketch of the direct calls: line_a = 4 on points 2, 3; line_b = 7 on
\* points 5, 6; the point 8
ApplySketch ==
    Sketch_point(_make_line(_make_line(Sketch_init, 0, 0, 2, 0), 0, 2, 2, 2),
                 1, 1, FALSE)

Line_a == 4

Line_b == 7

Point_b == 8

\* _edge_entry / _point_entry of the tests: the registries handed to the calls
ApplyRegistries ==
    {DimensionMapping(e, p, <<>>, <<>>) :
        e \in {<<>>, <<[key |-> Name_a,
                        val |-> MappedEdgeDimension(0, Name_a, Line_a)]>>},
        p \in {<<>>, <<[key |-> Name_b,
                        val |-> MappedPointDimension(0, Name_b, Point_b)]>>}}

One == [n |-> 1, e |-> 0]

\* the specs called: every class, every kind of argument
CallSpecs ==
    {MkSpec("Distance", <<>>, One),
     [MkSpec("DistanceProj", <<>>, One) EXCEPT !.axis = Line_a],
     MkSpec("Vertical", <<>>, NoValue), MkSpec("Horizontal", <<>>, NoValue)}
    \cup {MkSpec(k, o, NoValue) :
            k \in {"Parallel", "Perpendicular", "Equal", "Coincident",
                   "Midpoint"},
            o \in {Name_a, Name_b, Name_zz}}

InitApply ==
    /\ NoParse
    /\ NoBoard
    /\ sketch = ApplySketch
    /\ shape_maps = <<>>
    /\ pad_maps = <<>>
    /\ registry \in ApplyRegistries
    /\ pc = "start"
    /\ NoCalls

Called(spec, via, target, r) ==
    [made |-> TRUE, spec |-> spec, via |-> via, target |-> target,
     name |-> Name_ctx, before |-> sketch, ok |-> r.ok, err |-> r.err]

ApplyToLine ==
    /\ Len(sketch.cons) < MaxCalls
    /\ \E spec \in CallSpecs :
          LET r == apply_to_line(sketch, spec, Line_b, Name_ctx, registry)
          IN  /\ sketch' = r.sk
              /\ direct' = Called(spec, "apply_to_line", <<Line_b>>, r)
    /\ UNCHANGED <<suffix, presult, boardVars, tol, owners, mapcall, mapVars, pc, pass2,
                   results, wb>>

ApplyToTwoPoints ==
    /\ Len(sketch.cons) < MaxCalls
    /\ \E spec \in CallSpecs :
          LET r == apply_to_two_points(sketch, spec, 2, 5, Name_ctx, registry)
          IN  /\ sketch' = r.sk
              /\ direct' = Called(spec, "apply_to_two_points", <<2, 5>>, r)
    /\ UNCHANGED <<suffix, presult, boardVars, tol, owners, mapcall, mapVars, pc, pass2,
                   results, wb>>

ApplyToPoint ==
    /\ Len(sketch.cons) < MaxCalls
    /\ \E spec \in CallSpecs :
          LET r == apply_to_point(sketch, spec, 5, Name_ctx, registry)
          IN  /\ sketch' = r.sk
              /\ direct' = Called(spec, "apply_to_point", <<5>>, r)
    /\ UNCHANGED <<suffix, presult, boardVars, tol, owners, mapcall, mapVars, pc, pass2,
                   results, wb>>

NextApply == ApplyToLine \/ ApplyToTwoPoints \/ ApplyToPoint

SpecApply == InitApply /\ [][NextApply]_vars

(***************************************************************************)
(* C7.  Each constraint spec adds a constraint only in the contexts it     *)
(* supports: Vertical, Horizontal, Parallel, Perpendicular and Equal only  *)
(* through apply_to_line, Coincident and Midpoint only through             *)
(* apply_to_point, Distance through apply_to_line and apply_to_two_points. *)
(* A call in any other context raises a wrong-context error and leaves the *)
(* sketch as it was; a call in a supported context never raises that       *)
(* error, and when it returns it has added exactly its one constraint.     *)
(***************************************************************************)
Supported(kind) ==
    CASE kind \in {"Vertical", "Horizontal", "Parallel", "Perpendicular",
                   "Equal"} -> {"apply_to_line"}
      [] kind \in {"Coincident", "Midpoint"} -> {"apply_to_point"}
      [] kind = "Distance" -> {"apply_to_line", "apply_to_two_points"}

ConstraintOf(kind) ==
    CASE kind = "Vertical" -> "vertical"
      [] kind = "Horizontal" -> "horizontal"
      [] kind = "Parallel" -> "parallel"
      [] kind = "Perpendicular" -> "perpendicular"
      [] kind = "Equal" -> "equal"
      [] kind = "Coincident" -> "coincident"
      [] kind = "Midpoint" -> "midpoint"
      [] kind = "Distance" -> "distance"

C7_ContextsSupported ==
    (direct.made /\ direct.spec.kind # "DistanceProj") =>
        IF direct.via \in Supported(direct.spec.kind)
        THEN /\ direct.err.kind # "WrongContext"
             /\ sketch.ents = direct.before.ents
             /\ IF direct.ok
                THEN /\ Len(sketch.cons) = Len(direct.before.cons) + 1
                     /\ SubSeq(sketch.cons, 1, Len(direct.before.cons))
                            = direct.before.cons
                     /\ sketch.cons[Len(sketch.cons)].kind
                            = ConstraintOf(direct.spec.kind)
                ELSE sketch = direct.before
        ELSE /\ ~direct.ok
             /\ direct.err.kind = "WrongContext"
             /\ direct.err.context = direct.name
             /\ sketch = direct.before

\* a Midpoint whose argument does name an edge, refused on a line, in a
\* sketch that already holds a user constraint
C7_Witness ==
    /\ direct.made
    /\ direct.spec.kind = "Midpoint"
    /\ DictHas(registry.edges, direct.spec.other)
    /\ direct.via = "apply_to_line"
    /\ direct.err.kind = "WrongContext"
    /\ Len(sketch.cons) = 1

(***************************************************************************)
(* C8.  Midpoint(x) applied through apply_to_line, where x is a name of    *)
(* the registry's points, adds a midpoint constraint between the point x   *)
(* and that line and does not fail.                                        *)
(***************************************************************************)
C8_MidpointOnEdge ==
    (/\ direct.made
     /\ direct.spec.kind = "Midpoint"
     /\ direct.via = "apply_to_line"
     /\ DictHas(registry.points, direct.spec.other))
        => /\ direct.ok
           /\ sketch.cons =
                Append(direct.before.cons,
                       Con("midpoint",
                           DictGet(registry.points, direct.spec.other).point,
                           direct.target[1], 0, NoValue))

(***************************************************************************)
(* C9.  Reference resolution fails closed.  Parallel, Perpendicular and    *)
(* Equal (on a line) and Midpoint (on a point) whose argument is no key of *)
(* the registry's edges, and Coincident (on a point) whose argument is no  *)
(* key of the registry's points, raise an unknown-reference error that     *)
(* carries the argument and the name of the referencing dimension, and the *)
(* sketch is left as it was.  A name that is a key of the other map only   *)
(* is unknown as well.                                                     *)
(***************************************************************************)
ResolvesIn(kind) ==
    IF kind = "Coincident" THEN registry.points ELSE registry.edges

C9_ResolutionFailsClosed ==
    (/\ direct.made
     /\ direct.spec.kind \in {"Parallel", "Perpendicular", "Equal",
                              "Midpoint", "Coincident"}
     /\ direct.via \in Supported(direct.spec.kind)
     /\ ~DictHas(ResolvesIn(direct.spec.kind), direct.spec.other))
        => /\ ~direct.ok
           /\ direct.err.kind = "UnknownReference"
           /\ direct.err.text = direct.spec.other
           /\ direct.err.context = direct.name
           /\ sketch = direct.before

\* coin(a) where a names an edge and no point
C9_Witness ==
    /\ direct.made
    /\ direct.spec.kind = "Coincident"
    /\ direct.via = "apply_to_point"
    /\ DictHas(registry.edges, direct.spec.other)
    /\ ~DictHas(registry.points, direct.spec.other)
    /\ direct.err.kind = "UnknownReference"

(***************************************************************************)
(* SpecDim: the two dimension passes on a board of two segments, A-B and   *)
(* C-D, under every list of at most MaxDims dimensions of DimChoices.      *)
(***************************************************************************)
RECURSIVE MapShapes(_, _, _, _)
\* the caller's loop: mapped.append(map_shape(sketch, graphic)), which ends
\* at the first shape that raises
MapShapes(sk, graphics, i, acc) ==
    IF i > Len(graphics) THEN [ok |-> TRUE, sk |-> sk, mapped |-> acc]
    ELSE LET r == map_shape(sk, i, graphics[i])
         IN  IF r.ok THEN MapShapes(r.sk, graphics, i + 1, Append(acc, r.m))
             ELSE [ok |-> FALSE, sk |-> r.sk, mapped |-> acc]

At_A == from_xy_mm(0, 0)

At_B == from_xy_mm(2, 0)

At_C == from_xy_mm(0, 2)

At_D == from_xy_mm(2, 2)

\* two places where the board has nothing
At_Y == from_xy_mm(4, 4)

At_Z == from_xy_mm(5, 5)

DimBoard == <<KiSegment(At_A, At_B), KiSegment(At_C, At_D)>>

Txt_a == <<"a", ":">>

Txt_h == <<"h">>

Txt_dist == <<"=", "1", "m", "m">>

Txt_h_par == <<"h", ",", "p", "(", "a", ")">>

Txt_h_bad == <<"h", ",", "x">>

Txt_dist_h == <<"=", "1", "m", "m", ",", "h">>

Ends_AB == <<At_A, At_B>>

Ends_BA == <<At_B, At_A>>

Ends_AC == <<At_A, At_C>>

Ends_AZ == <<At_A, At_Z>>

Ends_ZA == <<At_Z, At_A>>

Ends_ZY == <<At_Z, At_Y>>

\* the dimensions a board may carry: named and unnamed, on an edge in both
\* directions, between unconnected points, on one point, on none; with
\* suffixes that apply, that raise in some context, that fail to parse; a
\* center mark away from the geometry and one on a geometry point
DimChoices ==
    {KiDimension("aligned", Txt_a, <<>>, <<>>, se[1], se[2]) :
        se \in {Ends_AB, Ends_BA, Ends_AC, Ends_AZ, Ends_ZA, Ends_ZY}}
    \cup {KiDimension("aligned", Txt_a, Txt_h, <<>>, se[1], se[2]) :
            se \in {Ends_AB, Ends_AC, Ends_AZ}}
    \cup {KiDimension("aligned", Txt_a, Txt_dist, <<>>, se[1], se[2]) :
            se \in {Ends_AB, Ends_BA, Ends_AC}}
    \cup {KiDimension("aligned", Txt_a, Txt_h_par, <<>>, se[1], se[2]) :
            se \in {Ends_AB, Ends_BA}}
    \cup {KiDimension("aligned", Txt_a, Txt_h_bad, <<>>, se[1], se[2]) :
            se \in {Ends_AB, Ends_ZY}}
    \cup {KiDimension("aligned", <<>>, Txt_h, <<>>, se[1], se[2]) :
            se \in {Ends_AB, Ends_ZA, Ends_ZY}}
    \cup {KiDimension("aligned", <<>>, Txt_dist, <<>>, At_A, At_C)}
    \cup {KiDimension("orthogonal", <<>>, Txt_dist, <<>>, se[1], se[2]) :
            se \in {Ends_AB, Ends_AC}}
    \cup {KiDimension("orthogonal", <<>>, Txt_dist_h, <<>>, At_A, At_B)}
    \cup {KiDimension("leader", <<>>, <<>>, <<"a">>, at, at) :
            at \in {At_A, At_Z}}
    \cup {KiDimension("leader", <<>>, <<>>, t, At_A, At_A) :
            t \in {<<"a", ",", "c", "(", "a", ")">>, <<"a", ",", "h">>,
                   <<",", "c", "(", "a", ")">>,
                   <<" ", "a", " ", ",", "c", "(", "a", ")">>}}
    \cup {KiDimension("center", <<>>, <<>>, <<>>, at, at) :
            at \in {At_Z, At_A}}

DimLists == UNION {[1..n -> DimChoices] : n \in 0..MaxDims}

InitDim ==
    /\ NoParse
    /\ shapes = DimBoard
    /\ pads = <<>>
    /\ dims \in DimLists
    /\ input = Board(shapes, pads, dims)
    /\ tol = DefaultTolerance
    /\ sketch = MapShapes(Sketch_init, shapes, 1, <<>>).sk
    /\ shape_maps = MapShapes(Sketch_init, shapes, 1, <<>>).mapped
    /\ pad_maps = <<>>
    /\ registry = NoDimMap
    /\ pc = "shapes"
    /\ NoCalls

\* dim_map = map_dimensions(sketch, dimensions, mapped)
MapDimensions ==
    /\ pc = "shapes"
    /\ LET r == map_dimensions(sketch, dims, shape_maps, tol)
       IN  /\ sketch' = r.sk
           /\ registry' = r.dim_map
    /\ pc' = "dimensions"
    /\ UNCHANGED <<suffix, presult, boardVars, tol, owners, mapcall, shape_maps, pad_maps,
                   pass2, direct, results, wb>>

\* apply_dimension_constraints(sketch, dimensions, dim_map)
ApplyDimensionConstraints ==
    /\ pc = "dimensions"
    /\ LET r == apply_dimension_constraints(sketch, dims, registry, tol)
       IN  /\ sketch' = r.sk
           /\ pass2' = [called |-> TRUE, ok |-> r.ok, err |-> r.err,
                        before |-> sketch, constraints |-> r.constraints,
                        calls |-> r.calls]
    /\ pc' = "constraints"
    /\ UNCHANGED <<suffix, presult, boardVars, tol, owners, mapcall, mapVars, direct,
                   results, wb>>

NextDim == MapDimensions \/ ApplyDimensionConstraints

SpecDim == InitDim /\ [][NextDim]_vars

(***************************************************************************)
(* What the dimension passes are required to do, stated from the board:    *)
(* which sketch point an endpoint resolves to, whether a line connects two *)
(* resolved endpoints, and the name a prefix gives.                        *)
(***************************************************************************)
\* the places of all_points within the tolerance of a source position
PointsAt(pos) ==
    {k \in 1..Len(registry.all_points) :
        LET pt == sketch.ents[registry.all_points[k]]
            du == pt.u * _NM_PER_MM - pos[1]
            dv == pt.v * _NM_PER_MM - pos[2]
        IN  IF tol = 0 THEN du = 0 /\ dv = 0
            ELSE (du \div _NM_PER_MM) * (du \div _NM_PER_MM)
                    + (dv \div _NM_PER_MM) * (dv \div _NM_PER_MM) <= tol * tol}

\* the point a position resolves to: the first of all_points, 0 for none
Resolved(pos) ==
    IF PointsAt(pos) = {} THEN 0
    ELSE registry.all_points[CHOOSE k \in PointsAt(pos) :
                                \A j \in PointsAt(pos) : k <= j]

IsLinear(i) == dims[i].type \in {"aligned", "orthogonal"}

Named(i) ==
    dims[i].prefix # <<>> /\ dims[i].prefix[Len(dims[i].prefix)] = ":"

NameOf(i) == Trimmed(SubSeq(dims[i].prefix, 1, Len(dims[i].prefix) - 1))

StartOf(i) == Resolved(dims[i].start)

EndOf(i) == Resolved(dims[i].end)

EdgesBetween(i) ==
    {k \in 1..Len(registry.edge_index) :
        registry.edge_index[k].key = {StartOf(i), EndOf(i)}}

Connected(i) == StartOf(i) # 0 /\ EndOf(i) # 0 /\ EdgesBetween(i) # {}

LineOf(i) == registry.edge_index[CHOOSE k \in EdgesBetween(i) : TRUE].val

\* the entries of a map that dimension i is the source of
EntriesOf(d, i) == {d[k] : k \in {j \in 1..Len(d) : d[j].val.source = i}}

\* the map has the key, from dimension i or from a later one that took it
Holds(d, key, i) ==
    \E k \in 1..Len(d) : d[k].key = key /\ d[k].val.source >= i

StartKey(i) == NameOf(i) \o <<":", "s", "t", "a", "r", "t">>

EndKey(i) == NameOf(i) \o <<":", "e", "n", "d">>

(***************************************************************************)
(* C3.  apply_dimension_constraints applies nothing partially: when the    *)
(* call raises, the sketch holds no constraint and no entity added during  *)
(* the call.                                                               *)
(***************************************************************************)
C3_NoPartialApplication ==
    (pass2.called /\ ~pass2.ok) => sketch = pass2.before

\* the points of the mapped geometry, in the order of the shapes
GeometryPoints ==
    Flatten([i \in 1..Len(shape_maps) |-> points(shape_maps[i])])

\* the center dimensions of the board, in order
CenterDims == SelectSeq(dims, LAMBDA d : d.type = "center")

\* C13: all_points lists the points of the mapped geometry in shape order,
\* then one pinned point per center dimension at its center, in dimension
\* order; every registered point is the first of all_points within the
\* tolerance of the position it was looked up for, so a geometry point wins
\* a tie with a center point; a position near no point registers nothing
C13_FirstPointWins ==
    pc # "shapes" =>
        /\ Len(registry.all_points) = Len(GeometryPoints) + Len(CenterDims)
        /\ SubSeq(registry.all_points, 1, Len(GeometryPoints)) = GeometryPoints
        /\ \A j \in 1..Len(CenterDims) :
              LET h == registry.all_points[Len(GeometryPoints) + j]
              IN  /\ \A k \in 1..Len(GeometryPoints) : GeometryPoints[k] # h
                  /\ sketch.ents[h].kind = "point"
                  /\ from_xy_mm(sketch.ents[h].u, sketch.ents[h].v)
                        = CenterDims[j].center
        /\ \A k \in 1..Len(registry.points) :
              LET e == registry.points[k]
                  d == dims[e.val.source]
              IN  /\ e.val.point # 0
                  /\ \/ e.val.point = Resolved(d.start)
                     \/ d.type # "leader" /\ e.val.point = Resolved(d.end)
        /\ \A i \in 1..Len(dims) :
              (Resolved(dims[i].start) = 0 /\ Resolved(dims[i].end) = 0)
                 => EntriesOf(registry.points, i) = {}

\* a geometry point and the point of a center dimension lie at one position,
\* and the entry registered for that position holds the geometry point
C13_Witness ==
    /\ pc = "dimensions"
    /\ \E k \in 1..Len(registry.points) :
          LET e == registry.points[k]
              at == PointsAt(dims[e.val.source].start)
          IN  /\ \E a, b \in at : a <= Len(GeometryPoints) /\ b > Len(GeometryPoints)
              /\ e.val.point = Resolved(dims[e.val.source].start)
              /\ e.val.point = GeometryPoints[CHOOSE a \in at : \A b \in at : a <= b]

\* the part of a leader's override text before its first comma
BeforeComma(t) ==
    LET cs == {k \in 1..Len(t) : t[k] = ","}
    IN  IF cs = {} THEN t
        ELSE SubSeq(t, 1, (CHOOSE k \in cs : \A j \in cs : k <= j) - 1)

\* C14: a leader is registered under the part of its override text before
\* the first comma with the whitespace around it removed, so 'a,c(a)' and
\* ' a ,c(a)' both register the key 'a'
C14_LeaderNameTrimmed ==
    pc # "shapes" =>
        \A k \in 1..Len(registry.points) :
            LET e == registry.points[k]
                d == dims[e.val.source]
            IN  d.type = "leader"
                    => e.key = Trimmed(BeforeComma(d.override_text))

(***************************************************************************)
(* C5.  In map_dimensions a named aligned or orthogonal dimension is       *)
(* registered in edges[name] exactly when both endpoints resolve and the   *)
(* unordered pair of their handles is a key of edge_index; otherwise in    *)
(* points[name:start] exactly when its start resolves and in               *)
(* points[name:end] exactly when its end resolves.  No dimension is the    *)
(* source of both an edges entry and a points entry, and a dimension with  *)
(* no resolved endpoint is the source of none.  (A later dimension that    *)
(* registers the same key takes the entry over.)                           *)
(***************************************************************************)
C5_Registration ==
    pc # "shapes" =>
        \A i \in 1..Len(dims) :
            (IsLinear(i) /\ Named(i)) =>
                /\ Connected(i) => Holds(registry.edges, NameOf(i), i)
                /\ EntriesOf(registry.edges, i) # {} => Connected(i)
                /\ \A e \in EntriesOf(registry.edges, i) :
                      /\ e.key = NameOf(i)
                      /\ e.val = MappedEdgeDimension(i, NameOf(i), LineOf(i))
                /\ (~Connected(i) /\ StartOf(i) # 0)
                      => Holds(registry.points, StartKey(i), i)
                /\ (~Connected(i) /\ EndOf(i) # 0)
                      => Holds(registry.points, EndKey(i), i)
                /\ \A e \in EntriesOf(registry.points, i) :
                      /\ ~Connected(i)
                      /\ \/ /\ StartOf(i) # 0
                            /\ e.key = StartKey(i)
                            /\ e.val = MappedPointDimension(i, StartKey(i),
                                                            StartOf(i))
                         \/ /\ EndOf(i) # 0
                            /\ e.key = EndKey(i)
                            /\ e.val = MappedPointDimension(i, EndKey(i),
                                                            EndOf(i))

\* one dimension drawn against its edge (from p2 to p1) holds edges[a], and
\* another of the same name, whose end alone resolves, holds points[a:end]
C5_Witness ==
    /\ pc = "dimensions"
    /\ \E i, j \in 1..Len(dims) :
          /\ IsLinear(i) /\ Named(i) /\ Connected(i)
          /\ sketch.ents[LineOf(i)].a = EndOf(i)
          /\ EntriesOf(registry.edges, i) # {}
          /\ IsLinear(j) /\ Named(j)
          /\ StartOf(j) = 0
          /\ EntriesOf(registry.points, j) # {}

(***************************************************************************)
(* C6.  apply_dimension_constraints dispatches, for every dimension whose  *)
(* suffix is not blank, named or not, every spec of the suffix: through    *)
(* apply_to_line on the connecting line when both endpoints of an aligned  *)
(* or orthogonal dimension resolve and a line connects them; through       *)
(* apply_to_two_points(p_start, p_end) when both resolve and none does;    *)
(* through apply_to_point on the one endpoint that resolves; for a leader, *)
(* through apply_to_point on its resolved start.  A dimension of which     *)
(* nothing resolves adds nothing and makes no call raise.  Specs go in     *)
(* suffix order and dimensions in input order; the calls end at the first  *)
(* one that raises, or at the first suffix that does not parse.            *)
(***************************************************************************)
NoRoute == [via |-> "None", target |-> <<>>]

Route(i) ==
    IF IsLinear(i)
    THEN IF StartOf(i) # 0 /\ EndOf(i) # 0
         THEN IF Connected(i)
              THEN [via |-> "apply_to_line", target |-> <<LineOf(i)>>]
              ELSE [via |-> "apply_to_two_points",
                    target |-> <<StartOf(i), EndOf(i)>>]
         ELSE IF StartOf(i) # 0
         THEN [via |-> "apply_to_point", target |-> <<StartOf(i)>>]
         ELSE IF EndOf(i) # 0
         THEN [via |-> "apply_to_point", target |-> <<EndOf(i)>>]
         ELSE NoRoute
    ELSE IF dims[i].type = "leader" /\ StartOf(i) # 0
    THEN [via |-> "apply_to_point", target |-> <<StartOf(i)>>]
    ELSE NoRoute

SpecsOf(i) ==
    IF IsBlank(_get_suffix(dims[i])) THEN <<>>
    ELSE parse_suffix(_get_suffix(dims[i])).specs

Unparsed ==
    {i \in 1..Len(dims) : ~parse_suffix(_get_suffix(dims[i])).ok}

\* the dimensions the pass gets through: those before the first bad suffix
Reached ==
    LET unparsed == Unparsed
    IN  IF unparsed = {} THEN Len(dims)
        ELSE (CHOOSE i \in unparsed : \A j \in unparsed : i <= j) - 1

ExpectedOf(i) ==
    LET route == Route(i)
        specs == SpecsOf(i)
    IN  IF route = NoRoute THEN <<>>
        ELSE [k \in 1..Len(specs) |->
                [dim |-> i, spec |-> specs[k], via |-> route.via,
                 target |-> route.target]]

Expected == Flatten([i \in 1..Reached |-> ExpectedOf(i)])

\* the spec that was called is the parsed one, a Distance possibly projected
SameSpec(called, parsed) ==
    /\ called.other = parsed.other
    /\ called.value = parsed.value
    /\ \/ called.kind = parsed.kind
       \/ called.kind = "DistanceProj" /\ parsed.kind = "Distance"

CreatedByPass ==
    [k \in 1..(Len(sketch.cons) - Len(pass2.before.cons)) |->
        Len(pass2.before.cons) + k]

\* C23: apply_dimension_constraints returns the list of all constraints
\* created during the call: every constraint added to the sketch between
\* entry and normal return is in the returned list, once, in creation order.
C23_ReturnsAllCreated ==
    (pass2.called /\ pass2.ok) => pass2.constraints = CreatedByPass

(***************************************************************************)
(* SpecProj: the two dimension passes on the board of SpecDim, over        *)
(* dimensions that carry a distance: orthogonal with each alignment value, *)
(* aligned along an edge in both directions, between unconnected points,   *)
(* and askew of an edge (an end 1 mm off the edge's end, which resolves    *)
(* under a tolerance of 1 mm and not under a tolerance of 0).              *)
(***************************************************************************)
At_B1 == <<2 * _NM_PER_MM, 1 * _NM_PER_MM>>

Aligned(sfx, start, end) == KiDimension("aligned", <<>>, sfx, <<>>, start, end)

Orthogonal(sfx, alignment, start, end) ==
    [KiDimension("orthogonal", <<>>, sfx, <<>>, start, end)
        EXCEPT !.alignment = alignment]

ProjChoices ==
    {Orthogonal(Txt_dist, a, se[1], se[2]) :
        a \in 0..2, se \in {Ends_AB, Ends_AC}}
    \cup {Orthogonal(Txt_dist_h, 1, At_A, At_B),
          Orthogonal(Txt_h, 2, At_A, At_B)}
    \cup {Aligned(Txt_dist, se[1], se[2]) :
            se \in {Ends_AB, Ends_BA, Ends_AC, Ends_AZ, <<At_A, At_B1>>,
                    <<At_B1, At_A>>, <<At_A, At_A>>}}
    \cup {Aligned(Txt_dist_h, At_A, At_B1), Aligned(Txt_h, At_A, At_B1)}

InitProj ==
    /\ NoParse
    /\ shapes = DimBoard
    /\ pads = <<>>
    /\ dims \in UNION {[1..n -> ProjChoices] : n \in 0..MaxDims}
    /\ input = Board(shapes, pads, dims)
    /\ tol \in {DefaultTolerance, 1}
    /\ sketch = MapShapes(Sketch_init, shapes, 1, <<>>).sk
    /\ shape_maps = MapShapes(Sketch_init, shapes, 1, <<>>).mapped
    /\ pad_maps = <<>>
    /\ registry = NoDimMap
    /\ pc = "shapes"
    /\ NoCalls

SpecProj == InitProj /\ [][NextDim]_vars

\* the vector of dimension i, start to end, in mm
DimVec(i) ==
    <<_to_mm(dims[i].end[1] - dims[i].start[1]),
      _to_mm(dims[i].end[2] - dims[i].start[2])>>

\* the cases in which a Distance of dimension i is to be projected
ShouldProject(i) ==
    \/ dims[i].type = "orthogonal" /\ dims[i].alignment \in {1, 2}
    \/ /\ dims[i].type = "aligned"
       /\ Connected(i)
       /\ Cross(DimVec(i), Vec(sketch, LineOf(i))) # 0

\* the parsed spec that call k of the pass stands for: the calls of one
\* dimension go in suffix order
ParsedOf(k) ==
    LET i == pass2.calls[k].dim
    IN  SpecsOf(i)[Cardinality({j \in 1..k : pass2.calls[j].dim = i})]

\* the calls of the pass on a dimension whose endpoints both resolved
OnBothEnds ==
    {k \in 1..Len(pass2.calls) :
        pass2.calls[k].via \in {"apply_to_line", "apply_to_two_points"}}

\* the lines the pass added to the sketch
LinesOfPass ==
    {e \in (Len(pass2.before.ents) + 1)..Len(sketch.ents) :
        sketch.ents[e].kind = "line"}

\* the point is fixed by a dragged constraint added during the pass
FixedInPass(p) ==
    \E c \in (Len(pass2.before.cons) + 1)..Len(sketch.cons) :
        sketch.cons[c].kind = "dragged" /\ sketch.cons[c].a = p

\* a line between two fixed points, all three created during the pass
FreshFixedAxis(l) ==
    /\ l \in LinesOfPass
    /\ sketch.ents[l].a > Len(pass2.before.ents)
    /\ sketch.ents[l].b > Len(pass2.before.ents)
    /\ FixedInPass(sketch.ents[l].a)
    /\ FixedInPass(sketch.ents[l].b)

\* the two endpoints a call works on
EndsOf(call) ==
    IF call.via = "apply_to_line"
    THEN {sketch.ents[call.target[1]].a, sketch.ents[call.target[1]].b}
    ELSE {call.target[1], call.target[2]}

\* C24: with both endpoints resolved, a Distance spec is replaced by a
\* projected distance along a freshly created fixed axis line exactly when
\* the dimension is orthogonal with alignment X or Y, or aligned with a
\* connecting line it is not parallel to; otherwise it yields a
\* point-to-point distance and no axis entities are created.  Specs other
\* than Distance are never replaced.
C24_ProjectionCases ==
    pass2.called =>
        /\ \A k \in OnBothEnds :
              LET call == pass2.calls[k]
                  con == sketch.cons[pass2.constraints[k]]
              IN  IF ParsedOf(k).kind = "Distance"
                  THEN IF ShouldProject(call.dim)
                       THEN /\ call.spec.kind = "DistanceProj"
                            /\ FreshFixedAxis(call.spec.axis)
                            /\ call.ok => /\ con.kind = "distance_proj"
                                          /\ {con.a, con.b} = EndsOf(call)
                                          /\ con.c = call.spec.axis
                       ELSE /\ call.spec.kind = "Distance"
                            /\ call.ok => /\ con.kind = "distance"
                                          /\ {con.a, con.b} = EndsOf(call)
                  ELSE call.spec.kind = ParsedOf(k).kind
        /\ Cardinality(LinesOfPass)
              = Cardinality({i \in {pass2.calls[k].dim : k \in OnBothEnds} :
                                /\ ShouldProject(i)
                                /\ \E n \in 1..Len(SpecsOf(i)) :
                                      SpecsOf(i)[n].kind = "Distance"})

\* an aligned dimension askew of the edge between its resolved endpoints was
\* projected, and after it an orthogonal dimension of alignment 0 was not
C24_Witness ==
    /\ pass2.called
    /\ pass2.ok
    /\ tol = 1
    /\ Len(dims) = 2
    /\ dims[1].type = "aligned"
    /\ Connected(1)
    /\ Cross(DimVec(1), Vec(sketch, LineOf(1))) # 0
    /\ dims[2].type = "orthogonal"
    /\ dims[2].alignment = 0
    /\ Len(pass2.calls) = 2
    /\ pass2.calls[1].spec.kind = "DistanceProj"
    /\ pass2.calls[2].spec.kind = "Distance"
    /\ Cardinality(LinesOfPass) = 1

(***************************************************************************)
(* SpecOrder: the two dimension passes on the board of SpecDim, over       *)
(* dimensions that name edges and points and refer to each other's names:  *)
(* an edge, an unconnected pair, leaders on a mapped point and on a center *)
(* mark, a leader whose name is the start key of another dimension.        *)
(***************************************************************************)
Txt_b == <<"b", ":">>

Txt_par_a == <<"p", "(", "a", ")">>

Txt_a_start == <<"a", ":", "s", "t", "a", "r", "t">>

OrderChoices ==
    {KiDimension("aligned", Txt_a, <<>>, <<>>, se[1], se[2]) :
        se \in {Ends_AB, Ends_BA, Ends_AC}}
    \cup {KiDimension("aligned", Txt_b, Txt_par_a, <<>>, At_C, At_D),
          KiDimension("aligned", Txt_b, Txt_h_par, <<>>, At_A, At_B),
          KiDimension("leader", <<>>, <<>>, Txt_a_start, At_B, At_B),
          KiDimension("leader", <<>>, <<>>,
                      <<"b", ",", "c", "(">> \o Txt_a_start \o <<")">>,
                      At_D, At_D),
          KiDimension("leader", <<>>, <<>>, <<"a">>, At_Z, At_Z),
          KiDimension("leader", <<>>, <<>>,
                      <<"b", ",", "c", "(", "a", ")">>, At_A, At_A),
          KiDimension("center", <<>>, <<>>, <<>>, At_Z, At_Z),
          KiDimension("center", <<>>, <<>>, <<>>, At_Y, At_Y)}

InitOrder ==
    /\ NoParse
    /\ shapes = DimBoard
    /\ pads = <<>>
    /\ dims \in UNION {[1..n -> OrderChoices] : n \in 0..MaxDims}
    /\ input = Board(shapes, pads, dims)
    /\ tol = DefaultTolerance
    /\ sketch = MapShapes(Sketch_init, shapes, 1, <<>>).sk
    /\ shape_maps = MapShapes(Sketch_init, shapes, 1, <<>>).mapped
    /\ pad_maps = <<>>
    /\ registry = NoDimMap
    /\ pc = "shapes"
    /\ NoCalls

SpecOrder == InitOrder /\ [][NextDim]_vars

\* the permutations of 1..n, as functions
Orders(n) ==
    {q \in [1..n -> 1..n] : \A i, j \in 1..n : i # j => q[i] # q[j]}

\* the dimensions that carry a name
NamedDims == {i \in 1..Len(dims) : _extract_name(dims[i]).some}

DistinctNames ==
    \A i, j \in NamedDims :
        i # j => _extract_name(dims[i]).name # _extract_name(dims[j]).name

\* the keys pass 1 may register for dimension i
KeysOf(i) ==
    LET name == _extract_name(dims[i]).name
    IN  {name, name \o <<":", "s", "t", "a", "r", "t">>,
         name \o <<":", "e", "n", "d">>}

DistinctKeys ==
    \A i, j \in NamedDims : i # j => KeysOf(i) \cap KeysOf(j) = {}

\* pass 1 run on the dimensions in the order q, from the sketch of the
\* mapped shapes
Reordered(q) ==
    map_dimensions(MapShapes(Sketch_init, shapes, 1, <<>>).sk,
                   [k \in 1..Len(dims) |-> dims[q[k]]], shape_maps, tol)

\* the names the suffixes refer to, and the keys of a registry
ReferencedNames ==
    UNION {{SpecsOf(i)[k].other : k \in 1..Len(SpecsOf(i))} :
              i \in 1..Len(dims)}

KeysIn(d) == {d[k].key : k \in 1..Len(d)}

\* where a point of a sketch lies
PositionOf(sk, p) == <<sk.ents[p].u, sk.ents[p].v>>

\* a name resolves alike in the registry of this run and in that of r: to
\* the same line, to a point at the same place, or in neither
ResolvesAlike(name, r) ==
    LET l1 == _resolve_line(name, registry, <<>>)
        l2 == _resolve_line(name, r.dim_map, <<>>)
        p1 == _resolve_point(name, registry, <<>>)
        p2 == _resolve_point(name, r.dim_map, <<>>)
    IN  /\ l1.ok = l2.ok
        /\ l1.ok => l1.line = l2.line
        /\ p1.ok = p2.ok
        /\ p1.ok => PositionOf(sketch, p1.point) = PositionOf(r.sk, p2.point)

\* every permutation of the dimensions resolves every name alike
OrderIndependent ==
    \A q \in Orders(Len(dims)) :
        \A name \in ReferencedNames \cup KeysIn(registry.edges)
                        \cup KeysIn(registry.points)
                        \cup KeysIn(Reordered(q).dim_map.edges)
                        \cup KeysIn(Reordered(q).dim_map.points) :
            ResolvesAlike(name, Reordered(q))

\* a reference of pass 2 resolves whenever some dimension, earlier or later,
\* registered the name in pass 1
ForwardReferences ==
    \A k \in 1..Len(pass2.calls) :
        LET call == pass2.calls[k]
        IN  /\ (call.spec.kind = "Parallel" /\ call.via = "apply_to_line")
                  => (call.ok <=> \E j \in NamedDims :
                                     /\ _extract_name(dims[j]).name
                                            = call.spec.other
                                     /\ Connected(j))
            /\ (call.spec.kind = "Coincident" /\ call.via = "apply_to_point")
                  => (call.ok <=> call.spec.other \in KeysIn(registry.points))

ShapeChoices ==
    {KiSegment(At_A, At_B),
     KiArc(from_xy_mm(2, 1), from_xy_mm(1, 2), from_xy_mm(0, 1),
           from_xy_mm(1, 1)),
     KiArc(At_A, from_xy_mm(1, 0), At_B, <<>>),
     KiCircle(from_xy_mm(1, 1), from_xy_mm(3, 1)),
     KiRectangle(At_A, from_xy_mm(2, 1)),
     KiBezier(At_A, At_C, At_D, At_B),
     KiPolygon}

Trapezoid(size, delta) ==
    [KiLayer("PSS_TRAPEZOID", "PSS_CIRCLE", size) EXCEPT
        !.trapezoid_delta = delta]

Chamfered(corners) ==
    [KiLayer("PSS_CHAMFEREDRECT", "PSS_CIRCLE", from_xy_mm(8, 4)) EXCEPT
        !.chamfer_ratio = <<1, 4>>, !.chamfered_corners = corners]

\* copper layers of every pad shape: those of the dispatch table, a custom
\* shape on each anchor, an oval and an unknown shape; trapezoids skewed
\* vertically, horizontally, both ways and not at all; chamfered rectangles
\* with every set of chamfered corners
LayerChoices ==
    {KiLayer("PSS_CIRCLE", "PSS_RECTANGLE", from_xy_mm(2, 2)),
     KiLayer("PSS_CUSTOM", "PSS_CIRCLE", from_xy_mm(4, 4)),
     KiLayer("PSS_RECTANGLE", "PSS_CIRCLE", from_xy_mm(4, 2)),
     KiLayer("PSS_ROUNDRECT", "PSS_CIRCLE", from_xy_mm(2, 4)),
     KiLayer("PSS_CUSTOM", "PSS_RECTANGLE", from_xy_mm(2, 2)),
     KiLayer("PSS_CUSTOM", "PSS_OVAL", from_xy_mm(2, 2)),
     KiLayer("PSS_OVAL", "PSS_CIRCLE", from_xy_mm(4, 2)),
     KiLayer("PSS_UNKNOWN", "PSS_RECTANGLE", from_xy_mm(2, 2))}
    \cup {Trapezoid(from_xy_mm(4, 8), from_xy_mm(2, 0)),
          Trapezoid(from_xy_mm(8, 4), from_xy_mm(0, 2)),
          Trapezoid(from_xy_mm(4, 2), from_xy_mm(0, 0)),
          Trapezoid(from_xy_mm(4, 14), from_xy_mm(4, 24))}
    \cup {Chamfered(c) :
            c \in [{"top_left", "top_right", "bottom_left", "bottom_right"}
                      -> BOOLEAN]}

L_circle == KiLayer("PSS_CIRCLE", "PSS_RECTANGLE", from_xy_mm(2, 2))

L_oval == KiLayer("PSS_OVAL", "PSS_CIRCLE", from_xy_mm(4, 2))

L_roundrect == KiLayer("PSS_ROUNDRECT", "PSS_CIRCLE", from_xy_mm(2, 4))

L_trapezoid == Trapezoid(from_xy_mm(4, 2), from_xy_mm(0, 0))

\* pads at (4, 4): without copper layer, with one layer of every choice, and
\* with several layers, supported and not, in a few orders
PadChoices ==
    {KiPad(At_Y, <<>>)}
    \cup {KiPad(At_Y, <<l>>) : l \in LayerChoices}
    \cup {KiPad(At_Y, ls) :
            ls \in {<<L_circle, L_oval>>, <<L_oval, L_roundrect, L_circle>>,
                    <<L_roundrect, L_oval, L_trapezoid>>,
                    <<L_trapezoid, L_circle>>, <<L_oval, L_oval>>}}

InitMap ==
    /\ NoParse
    /\ NoBoard
    /\ NoSketch
    /\ NoCalls

MapCall(op, ok, err, before, index, writes) ==
    [op |-> op, ok |-> ok, err |-> err, before |-> before, index |-> index,
     writes |-> writes]

\* map_shape(sketch, shape), on a new shape
MapShapeCall ==
    /\ Len(shapes) + Len(pads) < MaxMaps
    /\ \E shape \in ShapeChoices :
          LET r == map_shape(sketch, Len(shapes) + 1, shape)
          IN  /\ shapes' = Append(shapes, shape)
              /\ sketch' = r.sk
              /\ shape_maps' = IF r.ok THEN Append(shape_maps, r.m)
                               ELSE shape_maps
              /\ mapcall' = MapCall("map_shape", r.ok, r.err, sketch,
                                    Len(shapes) + 1, <<>>)
    /\ UNCHANGED <<suffix, presult, pads, dims, input, tol, owners, pad_maps,
                   registry, pc, pass2, direct, results, wb>>

\* map_pad(sketch, pad), on a new pad
MapPadCall ==
    /\ Len(shapes) + Len(pads) < MaxMaps
    /\ \E pad \in PadChoices :
          LET r == map_pad(sketch, Len(pads) + 1, pad)
          IN  /\ pads' = Append(pads, pad)
              /\ sketch' = r.sk
              /\ pad_maps' = Append(pad_maps, r.m)
              /\ mapcall' = MapCall("map_pad", TRUE, NoError, sketch,
                                    Len(pads) + 1, <<>>)
    /\ UNCHANGED <<suffix, presult, shapes, dims, input, tol, owners, shape_maps,
                   registry, pc, pass2, direct, results, wb>>

\* mapped_pad.write_back(), for any mapped pad
PadWriteBackCall ==
    /\ \E i \in 1..Len(pad_maps) :
          LET r == MappedPad_write_back(sketch, pad_maps[i],
                                        pads[pad_maps[i].source])
          IN  /\ pads' = [pads EXCEPT ![pad_maps[i].source] = r.pad]
              /\ mapcall' = MapCall("write_back", TRUE, NoError, sketch, i,
                                    r.writes)
    /\ UNCHANGED <<suffix, presult, shapes, dims, input, tol, owners, sketch,
                   mapVars, pc, pass2, direct, results, wb>>

NextMap == MapShapeCall \/ MapPadCall \/ PadWriteBackCall

SpecMap == InitMap /\ [][NextMap]_vars

(***************************************************************************)
(* Mapper claims, under SpecMap.                                           *)
(***************************************************************************)
\* the last call was map_shape, and the shape it was given
MappedShape == mapcall.op = "map_shape"

GivenShape == shapes[mapcall.index]

\* the constraints the last call added to the sketch
NewConstraints ==
    SubSeq(sketch.cons, Len(mapcall.before.cons) + 1, Len(sketch.cons))

\* the entities the last call added to the sketch
NewEntities ==
    SubSeq(sketch.ents, Len(mapcall.before.ents) + 1, Len(sketch.ents))

\* C15: map_shape on a primitive of an unsupported kind raises the
\* unsupported-shape error, map_shape on an arc without computable center
\* raises the degenerate-geometry error, and either way the sketch holds the
\* entities and constraints it held before the call
C15_RejectedShapeLeavesSketch ==
    MappedShape =>
        /\ GivenShape.type \notin {"segment", "arc", "circle", "rectangle",
                                   "bezier"}
              => /\ ~mapcall.ok
                 /\ mapcall.err.kind = "UnsupportedShape"
                 /\ sketch = mapcall.before
        /\ (GivenShape.type = "arc" /\ GivenShape.center = <<>>)
              => /\ ~mapcall.ok
                 /\ mapcall.err.kind = "DegenerateArc"
                 /\ sketch = mapcall.before

\* map_shape raised on an arc without center, in a sketch that held a mapped
\* pad or shape already
C15_Witness ==
    /\ MappedShape
    /\ GivenShape.type = "arc"
    /\ ~mapcall.ok
    /\ Len(mapcall.before.ents) > 1
    /\ sketch = mapcall.before

\* C18: of the graphic shapes only a rectangle emits constraints: map_shape
\* on a rectangle returns exactly perpendicular(top, right),
\* perpendicular(right, bottom) and perpendicular(bottom, left), in this
\* order, where top runs from the top-left to the top-right corner, right
\* on to the bottom-right, bottom on to the bottom-left and left back;
\* map_shape on a segment, arc, circle or Bezier returns no constraint and
\* adds none to the sketch
C18_OnlyRectanglesConstrain ==
    (MappedShape /\ mapcall.ok) =>
        LET m == shape_maps[Len(shape_maps)]
        IN  IF GivenShape.type = "rectangle"
            THEN /\ Len(m.constraints) = 3
                 /\ Len(NewConstraints) = 3
                 /\ \A k \in 1..3 :
                       /\ m.constraints[k] = Len(mapcall.before.cons) + k
                       /\ NewConstraints[k].kind = "perpendicular"
                 /\ NewConstraints[1].a = m.f.top
                 /\ NewConstraints[1].b = m.f.right
                 /\ NewConstraints[2].a = m.f.right
                 /\ NewConstraints[2].b = m.f.bottom
                 /\ NewConstraints[3].a = m.f.bottom
                 /\ NewConstraints[3].b = m.f.left
                 /\ <<sketch.ents[m.f.top].a, sketch.ents[m.f.top].b>>
                       = <<m.f.top_left, m.f.top_right>>
                 /\ <<sketch.ents[m.f.right].a, sketch.ents[m.f.right].b>>
                       = <<m.f.top_right, m.f.bottom_right>>
                 /\ <<sketch.ents[m.f.bottom].a, sketch.ents[m.f.bottom].b>>
                       = <<m.f.bottom_right, m.f.bottom_left>>
                 /\ <<sketch.ents[m.f.left].a, sketch.ents[m.f.left].b>>
                       = <<m.f.bottom_left, m.f.top_left>>
            ELSE /\ m.constraints = <<>>
                 /\ NewConstraints = <<>>

\* a rectangle was mapped into a sketch that held the three constraints of
\* another
C18_Witness ==
    /\ MappedShape
    /\ mapcall.ok
    /\ GivenShape.type = "rectangle"
    /\ Len(mapcall.before.cons) = 3
    /\ Len(sketch.cons) = 6

\* the last call was map_pad, the pad it was given and what it returned
MappedPad == mapcall.op = "map_pad"

GivenPad == pads[mapcall.index]

\* the class the dispatch table gives a copper layer, "none" for a layer it
\* has no row for
LayerClass(layer) ==
    CASE layer.shape = "PSS_CIRCLE" -> "pad_circle"
      [] layer.shape \in {"PSS_RECTANGLE", "PSS_ROUNDRECT"} -> "pad_rectangle"
      [] layer.shape = "PSS_TRAPEZOID" -> "pad_trapezoid"
      [] layer.shape = "PSS_CHAMFEREDRECT" -> "pad_chamfered_rect"
      [] layer.shape = "PSS_CUSTOM"
            /\ layer.custom_anchor_shape = "PSS_CIRCLE" -> "pad_circle"
      [] layer.shape = "PSS_CUSTOM"
            /\ layer.custom_anchor_shape = "PSS_RECTANGLE" -> "pad_rectangle"
      [] OTHER -> "none"

\* the places of the supported layers of a pad, in order
SupportedLayers(pad) ==
    SelectSeq([k \in 1..Len(pad.copper_layers) |-> k],
              LAMBDA k : LayerClass(pad.copper_layers[k]) # "none")

\* the pad without the layers the table has no row for
OnlySupported(pad) ==
    [pad EXCEPT !.copper_layers =
        SelectSeq(@, LAMBDA layer : LayerClass(layer) # "none")]

\* C16: map_pad maps the copper layers in their order by the dispatch table
\* and drops every other layer: mapped_geometry has one entry per supported
\* layer, in order and of the class of the table, the pad's constraints are
\* the layers' constraints concatenated in that order, and a dropped layer
\* adds nothing to the sketch (the sketch is the one the pad without its
\* dropped layers gives; with no supported layer, the center point alone)
C16_PadDispatch ==
    /\ \A i \in 1..Len(pad_maps) :
          LET m == pad_maps[i]
              pad == pads[m.source]
              sup == SupportedLayers(pad)
          IN  /\ Len(m.mapped_geometry) = Len(sup)
              /\ \A j \in 1..Len(sup) :
                    /\ m.mapped_geometry[j].source = sup[j]
                    /\ m.mapped_geometry[j].kind
                          = LayerClass(pad.copper_layers[sup[j]])
              /\ m.constraints
                    = Flatten([j \in 1..Len(m.mapped_geometry) |->
                                  m.mapped_geometry[j].constraints])
    /\ MappedPad =>
          /\ mapcall.ok
          /\ sketch = map_pad(mapcall.before, mapcall.index,
                              OnlySupported(GivenPad)).sk
          /\ SupportedLayers(GivenPad) = <<>> =>
                /\ NewConstraints = <<>>
                /\ NewEntities
                      = <<Ent("point", _to_mm(GivenPad.position[1]),
                              _to_mm(GivenPad.position[2]), 0, 0)>>

\* a pad of a rounded rectangle, an oval and a trapezoid was mapped to a
\* rectangle and a trapezoid
C16_Witness ==
    /\ MappedPad
    /\ Len(GivenPad.copper_layers) = 3
    /\ GivenPad.copper_layers[2].shape = "PSS_OVAL"
    /\ Len(pad_maps[mapcall.index].mapped_geometry) = 2
    /\ pad_maps[mapcall.index].mapped_geometry[1].kind = "pad_rectangle"
    /\ pad_maps[mapcall.index].mapped_geometry[2].kind = "pad_trapezoid"
    /\ Len(pad_maps[mapcall.index].constraints) = 10

\* C17: every layer mapped for a pad holds as its center the pad's position
\* point, one point that the map_pad call created first and that no other
\* pad holds; MappedPad.write_back writes the source's position from that
\* point first and then runs the write_back of each mapped layer, in the
\* order of mapped_geometry
C17_SharedCenter ==
    /\ \A i \in 1..Len(pad_maps) :
          LET m == pad_maps[i]
          IN  /\ sketch.ents[m.position].kind = "point"
              /\ \A j \in 1..Len(m.mapped_geometry) :
                    m.mapped_geometry[j].f.center = m.position
              /\ \A k \in 1..Len(pad_maps) :
                    k # i => pad_maps[k].position # m.position
    /\ MappedPad =>
          LET m == pad_maps[mapcall.index]
              at == Ent("point", _to_mm(GivenPad.position[1]),
                        _to_mm(GivenPad.position[2]), 0, 0)
          IN  /\ m.position = Len(mapcall.before.ents) + 1
              /\ {k \in 1..Len(NewEntities) : NewEntities[k] = at} = {1}
    /\ mapcall.op = "write_back" =>
          LET m == pad_maps[mapcall.index]
          IN  /\ pads[m.source].position = _v2(sketch, m.position)
              /\ mapcall.writes
                    = <<0>> \o [j \in 1..Len(m.mapped_geometry) |->
                                  m.mapped_geometry[j].source]

\* the second pad of a sketch, with two mapped layers, was written back
C17_Witness ==
    /\ mapcall.op = "write_back"
    /\ mapcall.index = 2
    /\ Len(pad_maps[2].mapped_geometry) = 2
    /\ Len(mapcall.writes) = 3
    /\ pad_maps[2].mapped_geometry[1].f.center = pad_maps[2].position
    /\ pad_maps[2].mapped_geometry[2].f.center = pad_maps[2].position

\* the chamfered corners of a layer, in the order tl, tr, bl, br
ChamferedCorners(layer) ==
    SelectSeq(<<1, 2, 3, 4>>,
              LAMBDA c : <<layer.chamfered_corners.top_left,
                           layer.chamfered_corners.top_right,
                           layer.chamfered_corners.bottom_left,
                           layer.chamfered_corners.bottom_right>>[c])

\* the constraint of the sketch: method(a, b)
Relates(h, method, a, b) == sketch.cons[h] = Con(method, a, b, 0, NoValue)

\* what C19 requires of the mapped chamfered rectangle g of a layer
ChamferedAsDocumented(g, layer) ==
    LET idx == ChamferedCorners(layer)
        k == Len(idx)
        chs == <<g.f.chamfer_tl, g.f.chamfer_tr, g.f.chamfer_bl,
                 g.f.chamfer_br>>
        b == k + (IF k > 1 THEN k - 1 ELSE 0)
        cs == g.constraints
    IN  /\ \A c \in 1..4 : chs[c].some <=> \E j \in 1..k : idx[j] = c
        /\ Len(cs) = 11 + 3 * k + (IF k > 1 THEN k - 1 ELSE 0)
        /\ \A j \in 1..(Len(cs) - 1) : cs[j + 1] = cs[j] + 1
        /\ \A j \in 1..k :
              /\ Relates(cs[j], "equal", chs[idx[j]].v_construction,
                         chs[idx[j]].h_construction)
              /\ Relates(cs[b + 11 + j], "parallel", g.f.construction_v,
                         chs[idx[j]].v_construction)
              /\ Relates(cs[b + 11 + k + j], "parallel", g.f.construction_h,
                         chs[idx[j]].h_construction)
        /\ \A j \in 1..(k - 1) :
              Relates(cs[k + j], "equal", chs[idx[j + 1]].v_construction,
                      chs[idx[j]].v_construction)
        /\ Relates(cs[b + 1], "midpoint", g.f.top_mid, g.f.top)
        /\ Relates(cs[b + 2], "midpoint", g.f.left_mid, g.f.left)
        /\ Relates(cs[b + 3], "midpoint", g.f.right_mid, g.f.right)
        /\ Relates(cs[b + 4], "midpoint", g.f.bottom_mid, g.f.bottom)
        /\ Relates(cs[b + 5], "midpoint", g.f.center, g.f.construction_v)
        /\ Relates(cs[b + 6], "midpoint", g.f.center, g.f.construction_h)
        /\ Relates(cs[b + 7], "perpendicular", g.f.construction_h,
                   g.f.construction_v)
        /\ Relates(cs[b + 8], "parallel", g.f.construction_h, g.f.bottom)
        /\ Relates(cs[b + 9], "parallel", g.f.construction_h, g.f.top)
        /\ Relates(cs[b + 10], "parallel", g.f.construction_v, g.f.left)
        /\ Relates(cs[b + 11], "parallel", g.f.construction_v, g.f.right)

\* C19: a chamfered-rectangle layer with k chamfered corners emits, in this
\* order, the k equal constraints of its chamfers in the corner order tl, tr,
\* bl, br, the max(k - 1, 0) constraints that make each chamfer equal to the
\* one before, the four edge midpoints, the two center midpoints, the
\* perpendicular and the four parallels of the construction lines, and the
\* 2k parallels of the chamfer axes: 11 + 3k + max(k - 1, 0) in all; a
\* corner without chamfer adds no point, line or constraint (the layer adds
\* 14 + 5k entities)
C19_ChamferedConstraintOrder ==
    /\ \A i \in 1..Len(pad_maps) :
          \A j \in 1..Len(pad_maps[i].mapped_geometry) :
              LET g == pad_maps[i].mapped_geometry[j]
              IN  g.kind = "pad_chamfered_rect"
                      => ChamferedAsDocumented(
                            g, pads[pad_maps[i].source].copper_layers[g.source])
    /\ (MappedPad /\ Len(GivenPad.copper_layers) = 1
            /\ GivenPad.copper_layers[1].shape = "PSS_CHAMFEREDRECT")
          => LET k == Len(ChamferedCorners(GivenPad.copper_layers[1]))
             IN  /\ Len(NewEntities) = 1 + 14 + 5 * k
                 /\ Len(NewConstraints)
                       = 11 + 3 * k + (IF k > 1 THEN k - 1 ELSE 0)

\* a layer chamfered at its top-left and bottom-right corners was mapped
\* after a layer chamfered at every corner
C19_Witness ==
    /\ MappedPad
    /\ mapcall.index = 2
    /\ Len(pad_maps[1].mapped_geometry) = 1
    /\ pad_maps[1].mapped_geometry[1].kind = "pad_chamfered_rect"
    /\ Len(pad_maps[1].constraints) = 26
    /\ Len(pad_maps[2].mapped_geometry) = 1
    /\ pad_maps[2].mapped_geometry[1].kind = "pad_chamfered_rect"
    /\ ChamferedCorners(GivenPad.copper_layers[1]) = <<1, 4>>
    /\ Len(pad_maps[2].constraints) = 18

\* the length of the line from point p1 to point p2, squared
Length2(p1, p2) ==
    (sketch.ents[p2].u - sketch.ents[p1].u)
            * (sketch.ents[p2].u - sketch.ents[p1].u)
        + (sketch.ents[p2].v - sketch.ents[p1].v)
            * (sketch.ents[p2].v - sketch.ents[p1].v)

\* the layer holds the size and trapezoid_delta of the vertical-skew branch
\* (twice the values, squared where a length is named, to stay whole)
VerticalSkew(g, layer) ==
    LET left == Length(sketch, g.f.tl, g.f.bl)
        right == Length(sketch, g.f.tr, g.f.br)
    IN  /\ _to_mm(layer.size[1]) * _to_mm(layer.size[1])
              = Length2(g.f.midpoint_a, g.f.midpoint_b)
        /\ 2 * layer.size[2] = (left + right) * _NM_PER_MM
        /\ 2 * layer.trapezoid_delta[1] = (right - left) * _NM_PER_MM
        /\ layer.trapezoid_delta[2] = 0

\* the layer holds the size and trapezoid_delta of the horizontal-skew branch
HorizontalSkew(g, layer) ==
    LET top == Length(sketch, g.f.tl, g.f.tr)
        bottom == Length(sketch, g.f.bl, g.f.br)
    IN  /\ _to_mm(layer.size[2]) * _to_mm(layer.size[2])
              = Length2(g.f.midpoint_a, g.f.midpoint_b)
        /\ 2 * layer.size[1] = (top + bottom) * _NM_PER_MM
        /\ layer.trapezoid_delta[1] = 0
        /\ 2 * layer.trapezoid_delta[2] = (top - bottom) * _NM_PER_MM

\* C20: the write_back of a mapped trapezoid layer writes the size and
\* trapezoid_delta of the vertical-skew branch when the trapezoid_delta the
\* source held had x # 0 or y = 0, and those of the horizontal-skew branch
\* otherwise
C20_TrapezoidBranch ==
    [][mapcall'.op = "write_back" =>
          LET m == pad_maps[mapcall'.index]
          IN  \A j \in 1..Len(m.mapped_geometry) :
                  LET g == m.mapped_geometry[j]
                      old == pads[m.source].copper_layers[g.source]
                      new == pads'[m.source].copper_layers[g.source]
                  IN  g.kind = "pad_trapezoid" =>
                          IF old.trapezoid_delta[1] # 0
                                \/ old.trapezoid_delta[2] = 0
                          THEN VerticalSkew(g, new)
                          ELSE HorizontalSkew(g, new)]_vars

\* two trapezoids were written back: one skewed horizontally, by the
\* horizontal branch, and one without skew, whose width has become its height
C20_Witness ==
    /\ mapcall.op = "write_back"
    /\ Len(pads) = 2
    /\ Len(pads[1].copper_layers) = 1
    /\ pads[1].copper_layers[1].shape = "PSS_TRAPEZOID"
    /\ pads[1].copper_layers[1].trapezoid_delta = from_xy_mm(0, 2)
    /\ pads[1].copper_layers[1].size = from_xy_mm(8, 4)
    /\ Len(pads[2].copper_layers) = 1
    /\ pads[2].copper_layers[1].shape = "PSS_TRAPEZOID"
    /\ pads[2].copper_layers[1].trapezoid_delta = from_xy_mm(0, 0)
    /\ pads[2].copper_layers[1].size = from_xy_mm(2, 2)

\* create placed the midpoints of the trapezoid on its left and right edges
\* (its first constraint is midpoint(mp_a, left)), so that the construction
\* line is horizontal and stands for the width
MidpointsOnSides(g) == sketch.cons[g.constraints[1]].b = g.f.left

\* C26: create and write_back of a trapezoid agree on the skew, for every
\* trapezoid_delta: when create placed the midpoints on the left and right
\* edges, write_back takes the vertical-skew branch, and when it placed them
\* on the top and bottom edges, the horizontal-skew branch, so that
\* construction_len is written to the size component it was built from.
C26_SkewAgreement ==
    [][mapcall'.op = "write_back" =>
          LET m == pad_maps[mapcall'.index]
          IN  \A j \in 1..Len(m.mapped_geometry) :
                  LET g == m.mapped_geometry[j]
                      new == pads'[m.source].copper_layers[g.source]
                  IN  g.kind = "pad_trapezoid" =>
                          IF MidpointsOnSides(g)
                          THEN VerticalSkew(g, new)
                          ELSE HorizontalSkew(g, new)]_vars

\* every mapped geometry value the sketch holds: the mapped shapes, then the
\* mapped layers of the mapped pads
MappedValues ==
    shape_maps
    \o Flatten([i \in 1..Len(pad_maps) |-> pad_maps[i].mapped_geometry])

\* the handles a sequence holds
Handles(seq) == {seq[i] : i \in 1..Len(seq)}

\* both endpoints of every line of the mapped value are points of that value
LinesWithinPoints(m) ==
    \A l \in Handles(lines(m)) :
        {sketch.ents[l].a, sketch.ents[l].b} \subseteq Handles(points(m))

\* C21: both endpoints of every Line a mapped geometry value (graphic shape
\* or pad layer) returns from lines are among the Points it returns from
\* points; so every key of the edge_index _build_lookup builds from the
\* mapped values is a pair of handles of points of all_points.
C21_LinesWithinPoints ==
    /\ \A i \in 1..Len(MappedValues) : LinesWithinPoints(MappedValues[i])
    /\ LET lookup == _build_lookup(sketch, MappedValues)
       IN  \A k \in 1..Len(lookup[2]) :
               lookup[2][k].key \subseteq Handles(lookup[1])

\* a pad with a chamfered layer (some corners chamfered, some not) and a
\* rectangle have been mapped, and the edge index holds their nine lines
C21_Witness ==
    /\ Len(shape_maps) = 1
    /\ shape_maps[1].kind = "rectangle"
    /\ Len(pad_maps) = 1
    /\ Len(pad_maps[1].mapped_geometry) = 1
    /\ pad_maps[1].mapped_geometry[1].kind = "pad_chamfered_rect"
    /\ pad_maps[1].mapped_geometry[1].f.chamfer_tl.some
    /\ ~pad_maps[1].mapped_geometry[1].f.chamfer_br.some
    /\ Len(lines(pad_maps[1].mapped_geometry[1])) >= 5
    /\ Len(_build_lookup(sketch, MappedValues)[2]) >= 9

(***************************************************************************)
(* SpecTrap: one pad with one trapezoid layer is mapped; the caller sets   *)
(* the lengths of the two skewed edges and of the construction line with   *)
(* distance constraints and solves, and writes the pad back, in any order  *)
(* and as often as it likes.  A solve that succeeds leaves the trapezoid   *)
(* upright around its center, with the lengths asked for.                  *)
(***************************************************************************)
TrapPads ==
    {KiPad(At_Y, <<Trapezoid(sd[1], sd[2])>>) :
        sd \in {<<from_xy_mm(4, 8), from_xy_mm(2, 0)>>,
                <<from_xy_mm(8, 4), from_xy_mm(0, 2)>>,
                <<from_xy_mm(4, 2), from_xy_mm(0, 0)>>,
                <<from_xy_mm(4, 14), from_xy_mm(4, 24)>>}}

\* the sketch with the points of at moved to the places it gives
MovePoints(sk, at) ==
    [sk EXCEPT !.ents =
        [k \in 1..Len(sk.ents) |->
            IF k \in DOMAIN at
            THEN [sk.ents[k] EXCEPT !.u = at[k][1], !.v = at[k][2]]
            ELSE sk.ents[k]]]

\* the upright trapezoid g around (cx, cy) whose skewed edges have the half
\* lengths a and b and whose construction line has the half length h
Upright(sk, g, cx, cy, a, b, h) ==
    IF sk.cons[g.constraints[1]].b = g.f.left
    THEN MovePoints(sk, (g.f.tl :> <<cx - h, cy - a>>)
                        @@ (g.f.bl :> <<cx - h, cy + a>>)
                        @@ (g.f.tr :> <<cx + h, cy - b>>)
                        @@ (g.f.br :> <<cx + h, cy + b>>)
                        @@ (g.f.midpoint_a :> <<cx - h, cy>>)
                        @@ (g.f.midpoint_b :> <<cx + h, cy>>))
    ELSE MovePoints(sk, (g.f.tl :> <<cx - a, cy - h>>)
                        @@ (g.f.tr :> <<cx + a, cy - h>>)
                        @@ (g.f.bl :> <<cx - b, cy + h>>)
                        @@ (g.f.br :> <<cx + b, cy + h>>)
                        @@ (g.f.midpoint_a :> <<cx, cy - h>>)
                        @@ (g.f.midpoint_b :> <<cx, cy + h>>))

\* the caller's three calls of sketch.distance on the trapezoid g
Resized(sk, g, a, b, h) ==
    LET vertical == sk.cons[g.constraints[1]].b = g.f.left
        s1 == Sketch_distance(sk, g.f.tl, IF vertical THEN g.f.bl ELSE g.f.tr,
                              [n |-> 2 * a, e |-> 0])
        s2 == Sketch_distance(s1, IF vertical THEN g.f.tr ELSE g.f.bl, g.f.br,
                              [n |-> 2 * b, e |-> 0])
    IN  Sketch_distance(s2, g.f.midpoint_a, g.f.midpoint_b,
                        [n |-> 2 * h, e |-> 0])

\* the side from p1 to p2 has a whole length
WholeLength(sk, p1, p2) ==
    \E r \in 0..Dist2(sk, p1, p2) : r * r = Dist2(sk, p1, p2)

InitTrap ==
    /\ NoParse
    /\ NoBoard
    /\ NoSketch
    /\ NoCalls

\* map_pad(sketch, pad), on the one pad of the board
MapTrapezoidPad ==
    /\ pads = <<>>
    /\ \E pad \in TrapPads :
          LET r == map_pad(sketch, 1, pad)
          IN  /\ pads' = <<pad>>
              /\ sketch' = r.sk
              /\ pad_maps' = <<r.m>>
              /\ mapcall' = MapCall("map_pad", TRUE, NoError, sketch, 1, <<>>)
    /\ UNCHANGED <<suffix, presult, shapes, dims, input, tol, owners,
                   shape_maps, registry, pc, pass2, direct, results, wb>>

\* sketch.distance(...) on the two skewed edges and the construction line,
\* then sketch.solve(), which succeeds
ResizeTrapezoid ==
    /\ pads # <<>>
    /\ Len(results) < MaxSolves
    /\ \E a \in 1..MaxCoord, b \in 1..MaxCoord, h \in 1..MaxCoord :
          LET g == pad_maps[1].mapped_geometry[1]
              c == sketch.ents[pad_maps[1].position]
              solved == Upright(Resized(sketch, g, a, b, h), g, c.u, c.v,
                                a, b, h)
          IN  /\ Satisfied(solved)
              /\ WholeLength(solved, g.f.tl, g.f.bl)
              /\ WholeLength(solved, g.f.tl, g.f.tr)
              /\ sketch' = solved
    /\ results' = Append(results, TRUE)
    /\ mapcall' = MapCall("solve", TRUE, NoError, sketch, 1, <<>>)
    /\ UNCHANGED <<suffix, presult, boardVars, tol, owners, mapVars, pc,
                   pass2, direct, wb>>

NextTrap == MapTrapezoidPad \/ ResizeTrapezoid \/ PadWriteBackCall

SpecTrap == InitTrap /\ [][NextTrap]_vars

\* C27: MappedPadTrapezoid.write_back is idempotent: a second call with no
\* solve in between leaves the source's size and trapezoid_delta as the
\* first call left them, in every solved state.
C27_WriteBackIdempotent ==
    [][(/\ mapcall.op = "write_back"
        /\ mapcall'.op = "write_back"
        /\ mapcall'.index = mapcall.index)
          => LET m == pad_maps[mapcall.index]
             IN  \A j \in 1..Len(m.mapped_geometry) :
                     LET g == m.mapped_geometry[j]
                         old == pads[m.source].copper_layers[g.source]
                         new == pads'[m.source].copper_layers[g.source]
                     IN  g.kind = "pad_trapezoid" =>
                             /\ new.size = old.size
                             /\ new.trapezoid_delta = old.trapezoid_delta]_vars

(***************************************************************************)
(* SpecSketch: a process that makes Sketch objects one after another, as   *)
(* the test suite does (a new Sketch() per test), and works through the    *)
(* one it made last: points, lines, distances, solve.  The workspace of    *)
(* the solver is global; owners keeps, for every entity and constraint it  *)
(* holds, the number of the Sketch object it was created through.          *)
(***************************************************************************)
MaxSketches == 3

\* entities and constraints a workspace holds before the last call
MaxEnts == 5

\* the entities and constraints of sk that own does not list yet were
\* created through the Sketch object id
Owned(sk, own, id) ==
    [own EXCEPT
        !.ents = @ \o [k \in 1..(Len(sk.ents) - Len(@)) |-> id],
        !.cons = @ \o [k \in 1..(Len(sk.cons) - Len(@)) |-> id]]

\* the points the workspace holds
SketchPoints == {p \in 1..Len(sketch.ents) : sketch.ents[p].kind = "point"}

InitSketch ==
    /\ NoParse
    /\ NoBoard
    /\ NoSketch
    /\ NoCalls

\* Sketch(): the constructor adds the normal; whatever else the workspace
\* holds afterwards, it held before
NewSketch ==
    /\ owners.count < MaxSketches
    /\ sketch' = Sketch_new(sketch)
    /\ owners' =
          Owned(sketch',
                [owners EXCEPT
                    !.count = @ + 1,
                    !.ents = SubSeq(@, 1, Len(sketch'.ents) - 1),
                    !.cons = SubSeq(@, 1, Len(sketch'.cons))],
                owners.count + 1)
    /\ UNCHANGED <<suffix, presult, boardVars, tol, mapcall, mapVars, pc,
                   pass2, direct, results, wb>>

\* sketch.point(u, v, fixed=...), through the Sketch made last
SketchPoint ==
    /\ Len(sketch.ents) + Len(sketch.cons) < MaxEnts
    /\ \E u \in {0, MaxCoord}, fixed \in BOOLEAN :
          sketch' = Sketch_point(sketch, u, 0, fixed)
    /\ owners' = Owned(sketch', owners, owners.count)
    /\ UNCHANGED <<suffix, presult, boardVars, tol, mapcall, mapVars, pc,
                   pass2, direct, results, wb>>

\* sketch.line(p1, p2), through the Sketch made last
SketchLine ==
    /\ Len(sketch.ents) + Len(sketch.cons) < MaxEnts
    /\ \E p1 \in SketchPoints, p2 \in SketchPoints :
          /\ p1 < p2
          /\ sketch' = Sketch_line(sketch, p1, p2)
    /\ owners' = Owned(sketch', owners, owners.count)
    /\ UNCHANGED <<suffix, presult, boardVars, tol, mapcall, mapVars, pc,
                   pass2, direct, results, wb>>

\* sketch.distance(p1, p2, value), through the Sketch made last
SketchDistance ==
    /\ Len(sketch.ents) + Len(sketch.cons) < MaxEnts
    /\ \E p1 \in SketchPoints, p2 \in SketchPoints, value \in {1, MaxCoord} :
          /\ p1 < p2
          /\ sketch' = Sketch_distance(sketch, p1, p2, [n |-> value, e |-> 0])
    /\ owners' = Owned(sketch', owners, owners.count)
    /\ UNCHANGED <<suffix, presult, boardVars, tol, mapcall, mapVars, pc,
                   pass2, direct, results, wb>>

\* sketch.solve(), through the Sketch made last: the solver works on all the
\* workspace holds in the user group
SketchSolve ==
    /\ \/ sketch' \in Solutions(sketch)
       \/ /\ ~Satisfied(sketch)
          /\ sketch' = sketch
    /\ owners' = [owners EXCEPT
                     !.solved = <<[by |-> owners.count,
                                   ents |-> owners.ents,
                                   cons |-> owners.cons]>>]
    /\ UNCHANGED <<suffix, presult, boardVars, tol, mapcall, mapVars, pc,
                   pass2, direct, results, wb>>

NextSketch ==
    NewSketch \/ SketchPoint \/ SketchLine \/ SketchDistance \/ SketchSolve

SpecSketch == InitSketch /\ [][NextSketch]_vars

Txt_3mm == <<"=", "3", "m", "m">>

Pad_1 ==
    KiPad(from_xy_mm(3, 1),
          <<KiLayer("PSS_CIRCLE", "PSS_CIRCLE", from_xy_mm(2, 2)),
            KiLayer("PSS_OVAL", "PSS_CIRCLE", from_xy_mm(2, 1))>>)

\* the boards of the pipeline: a segment A-B, with or without a rectangle and
\* a pad, and one dimension: over the segment in its direction and against
\* it, with and without a constraint suffix, ending on the segment from a
\* free position, or a leader on B
PipeBoards ==
    {Board(<<KiSegment(At_A, At_B)>>, <<>>, <<>>),
     Board(<<KiSegment(At_A, At_B), KiRectangle(At_C, from_xy_mm(2, 3))>>,
           <<Pad_1>>,
           <<KiDimension("aligned", Txt_a, <<>>, <<>>, At_A, At_B)>>),
     Board(<<KiSegment(At_A, At_B)>>, <<>>,
           <<KiDimension("aligned", Txt_a, Txt_3mm, <<>>, At_B, At_A)>>),
     Board(<<KiSegment(At_A, At_B)>>, <<Pad_1>>,
           <<KiDimension("aligned", Txt_a, <<>>, <<>>, At_B, At_A)>>),
     Board(<<KiSegment(At_A, At_B)>>, <<Pad_1>>,
           <<KiDimension("aligned", Txt_a, <<>>, <<>>, At_Z, At_A)>>),
     Board(<<KiSegment(At_A, At_B)>>, <<>>,
           <<KiDimension("leader", <<>>, <<>>, <<"a">>, At_B, At_B)>>)}

Init ==
    /\ NoParse
    /\ input \in PipeBoards
    /\ shapes = input.shapes
    /\ pads = input.pads
    /\ dims = input.dims
    /\ tol = DefaultTolerance
    /\ NoSketch
    /\ NoCalls

AllMapped(ns, np) == ns = Len(shapes) /\ np = Len(pads)

\* mapped.append(map_shape(sketch, graphic)), for the next graphic
MapShape ==
    /\ pc = "start"
    /\ Len(shape_maps) < Len(shapes)
    /\ LET i == Len(shape_maps) + 1
           r == map_shape(sketch, i, shapes[i])
       IN  /\ r.ok
           /\ sketch' = r.sk
           /\ shape_maps' = Append(shape_maps, r.m)
           /\ pc' = IF AllMapped(i, Len(pad_maps)) THEN "shapes" ELSE "start"
    /\ UNCHANGED <<suffix, presult, boardVars, tol, owners, mapcall, pad_maps, registry,
                   pass2, direct, results, wb>>

\* map_pad(sketch, pad), for the next pad
MapPad ==
    /\ pc = "start"
    /\ Len(pad_maps) < Len(pads)
    /\ LET i == Len(pad_maps) + 1
           r == map_pad(sketch, i, pads[i])
       IN  /\ sketch' = r.sk
           /\ pad_maps' = Append(pad_maps, r.m)
           /\ pc' = IF AllMapped(Len(shape_maps), i) THEN "shapes" ELSE "start"
    /\ UNCHANGED <<suffix, presult, boardVars, tol, owners, mapcall, shape_maps, registry,
                   pass2, direct, results, wb>>

Mapped == pc \in {"dimensions", "constraints"}

\* the constraints that mapping emitted: those of the mapped shapes and
\* pads, and the dragged constraint of each center dimension
IntrinsicCount ==
    Len(Flatten([i \in 1..Len(shape_maps) |-> shape_maps[i].constraints]))
        + Len(Flatten([i \in 1..Len(pad_maps) |-> pad_maps[i].constraints]))
        + IF Mapped
          THEN Cardinality({i \in 1..Len(dims) : dims[i].type = "center"})
          ELSE 0

UserCount == Len(sketch.cons) - IntrinsicCount

\* sketch.distance(start, end, value) on the first mapped shape's first two
\* points, by the caller
AddDistance ==
    /\ Mapped
    /\ UserCount < MaxUser
    /\ \E value \in {1, 3} :
          LET p == points(shape_maps[1])
          IN  sketch' = Sketch_distance(sketch, p[1], p[2],
                                        [n |-> value, e |-> 0])
    /\ UNCHANGED <<suffix, presult, boardVars, tol, owners, mapcall, mapVars, pc, pass2,
                   direct, results, wb>>

\* result = sketch.solve()
Solve ==
    /\ Mapped
    /\ Len(results) < MaxSolves
    /\ \/ /\ sketch' \in Solutions(sketch)
          /\ results' = Append(results, TRUE)
       \/ /\ ~Satisfied(sketch)
          /\ sketch' = sketch
          /\ results' = Append(results, FALSE)
    /\ UNCHANGED <<suffix, presult, boardVars, tol, owners, mapcall, mapVars, pc, pass2,
                   direct, wb>>

Last(seq) == seq[Len(seq)]

\* a writeback call: the method, the result.ok it was given (write_back_shapes
\* alone takes one), whether it raised and what it returned
Wrote(op, result_ok, raised, returned) ==
    [op |-> op, result |-> result_ok, raised |-> raised,
     returned |-> returned]

\* write_back_shapes(mapped, result), with any result the caller holds
WriteBackShapes ==
    /\ Mapped
    /\ \E k \in 1..Len(results) :
          LET r == write_back_shapes(sketch, shape_maps, results[k], shapes)
          IN  /\ shapes' = r.srcs
              /\ wb' = Wrote("write_back_shapes", results[k], r.raised,
                             r.sources)
    /\ UNCHANGED <<suffix, presult, pads, dims, input, tol, owners, mapcall, sketch, mapVars,
                   pc, pass2, direct, results>>

\* mapped_pad.write_back(), for any mapped pad
PadWriteBack ==
    /\ Mapped
    /\ results # <<>>
    /\ \E i \in 1..Len(pad_maps) :
          /\ pads' = [pads EXCEPT ![pad_maps[i].source] =
                        MappedPad_write_back(sketch, pad_maps[i], @).pad]
          /\ wb' = Wrote("MappedPad.write_back", TRUE, FALSE, <<>>)
    /\ UNCHANGED <<suffix, presult, shapes, dims, input, tol, owners, mapcall, sketch,
                   mapVars, pc, pass2, direct, results>>

\* dim_map.map_back()
MapBack ==
    /\ Mapped
    /\ results # <<>>
    /\ LET r == DimensionMapping_map_back(sketch, registry, dims)
       IN  /\ dims' = r.dims
           /\ wb' = Wrote("DimensionMapping.map_back", TRUE, FALSE,
                          r.modified)
    /\ UNCHANGED <<suffix, presult, shapes, pads, input, tol, owners, mapcall, sketch,
                   mapVars, pc, pass2, direct, results>>

Next ==
    \/ MapShape
    \/ MapPad
    \/ MapDimensions
    \/ ApplyDimensionConstraints
    \/ AddDistance
    \/ Solve
    \/ WriteBackShapes
    \/ PadWriteBack
    \/ MapBack

Spec == Init /\ [][Next]_vars

(***************************************************************************)
(* Writeback claims, under Spec.                                           *)
(***************************************************************************)
\* the source primitives of the board
Sources == <<shapes, pads, dims>>

\* the step is a writeback call of the named method
WritebackStep(op) ==
    /\ wb'.op = op
    /\ wb' # wb \/ Sources' # Sources

\* C1: while the most recent solve of the sketch is not ok, no writeback of
\* any kind changes a source primitive, and a writeback called then raises;
\* this covers write_back_shapes given an older ok result, MappedPad.write_back
\* and DimensionMapping.map_back
C1_NoWritebackAfterFailedSolve ==
    [][(results # <<>> /\ ~Last(results))
          => /\ Sources' = Sources
             /\ wb' # wb => wb'.raised]_vars

\* the source fields a mapped shape writes hold the positions of its points
ReadsBack(sk, m, source) ==
    CASE m.kind = "segment" ->
            /\ source.start = from_xy_mm(sk.ents[m.f.start].u,
                                         sk.ents[m.f.start].v)
            /\ source.end = from_xy_mm(sk.ents[m.f.end].u,
                                       sk.ents[m.f.end].v)
      [] m.kind = "rectangle" ->
            /\ source.top_left = from_xy_mm(sk.ents[m.f.top_left].u,
                                            sk.ents[m.f.top_left].v)
            /\ source.bottom_right =
                  from_xy_mm(sk.ents[m.f.bottom_right].u,
                             sk.ents[m.f.bottom_right].v)

\* C2: write_back_shapes given a result that is not ok raises and leaves
\* every source primitive as it was; given an ok result it does not raise,
\* every mapped shape's source holds the solved positions afterwards, and it
\* returns one source per mapped shape, in the order of the mapped shapes
C2_WriteBackShapes ==
    [][WritebackStep("write_back_shapes")
          => /\ ~wb'.result => (wb'.raised /\ Sources' = Sources)
             /\ wb'.result
                   => /\ ~wb'.raised
                      /\ Len(wb'.returned) = Len(shape_maps)
                      /\ \A i \in 1..Len(shape_maps) :
                            /\ wb'.returned[i] = shape_maps[i].source
                            /\ ReadsBack(sketch, shape_maps[i],
                                         shapes'[shape_maps[i].source])
                      /\ pads' = pads /\ dims' = dims]_vars

\* an ok result was written back over two mapped shapes after a solve moved
\* a point, and a failed solve is among the results
C2_Witness ==
    /\ wb.op = "write_back_shapes"
    /\ wb.result /\ ~wb.raised
    /\ Len(wb.returned) = 2
    /\ shapes # input.shapes
    /\ \E k \in 1..Len(results) : ~results[k]

\* C4: with no constraint added beyond those of the mapping and every solve
\* ok, a writeback leaves every source field equal to its input value
C4_WritebackFixedPoint ==
    (/\ wb.op # "None"
     /\ UserCount = 0
     /\ \A k \in 1..Len(results) : results[k])
        => Board(shapes, pads, dims) = input

(***************************************************************************)
(* SpecBack: the dimension writeback.  A board of two segments carries     *)
(* named linear dimensions, over an edge in the direction of its line or   *)
(* against it, or between points that no line connects.  Pass 1 maps them, *)
(* pass 2 applies their suffixes, a solve may move a point, and            *)
(* dim_map.map_back() writes the dimensions.                               *)
(***************************************************************************)
Ends_CA == <<At_C, At_A>>

BackChoices ==
    {KiDimension("aligned", Txt_a, sfx, <<>>, se[1], se[2]) :
        sfx \in {<<>>, Txt_dist}, se \in {Ends_AB, Ends_BA, Ends_AC, Ends_CA}}
    \cup {KiDimension("orthogonal", Txt_b, Txt_dist, <<>>, se[1], se[2]) :
            se \in {Ends_AB, Ends_BA, Ends_AC, Ends_CA}}

InitBack ==
    /\ NoParse
    /\ shapes = DimBoard
    /\ pads = <<>>
    /\ dims \in UNION {[1..n -> BackChoices] : n \in 1..MaxDims}
    /\ input = Board(shapes, pads, dims)
    /\ tol = DefaultTolerance
    /\ sketch = MapShapes(Sketch_init, shapes, 1, <<>>).sk
    /\ shape_maps = MapShapes(Sketch_init, shapes, 1, <<>>).mapped
    /\ pad_maps = <<>>
    /\ registry = NoDimMap
    /\ pc = "shapes"
    /\ NoCalls

NextBack ==
    \/ MapDimensions
    \/ ApplyDimensionConstraints
    \/ Solve
    \/ MapBack

SpecBack == InitBack /\ [][NextBack]_vars

\* the sketch pass 1 ran on: the mapped shapes, before any solve
AsMapped == MapShapes(Sketch_init, input.shapes, 1, <<>>).sk

\* the sketch point a position of the board resolved to in pass 1: the first
\* of all_points that was there, 0 for none
FirstAt(pos) ==
    LET at == {k \in 1..Len(registry.all_points) :
                  _v2(AsMapped, registry.all_points[k]) = pos}
    IN  IF at = {} THEN 0
        ELSE registry.all_points[CHOOSE k \in at : \A j \in at : k <= j]

\* the dimension's start and end are where the points are that they resolved
\* to in pass 1
EndsFollow(sk, dim, drawn) ==
    /\ dim.start = _v2(sk, FirstAt(drawn.start))
    /\ dim.end = _v2(sk, FirstAt(drawn.end))

\* C28: after map_back, a dimension registered in edges has its start at the
\* sketch point its start resolved to in pass 1 and its end at the point its
\* end resolved to, in whichever direction it was drawn along the line
C28_EdgeOrientation ==
    [][WritebackStep("DimensionMapping.map_back")
          => \A k \in 1..Len(registry.edges) :
                LET i == registry.edges[k].val.source
                IN  EndsFollow(sketch, dims'[i], input.dims[i])]_vars

\* dimension i is registered by both its ends: name:start and name:end are
\* point entries of its own
ByBothEnds(i) ==
    /\ \E e \in EntriesOf(registry.points, i) : e.key = StartKey(i)
    /\ \E e \in EntriesOf(registry.points, i) : e.key = EndKey(i)

\* C29: after map_back has processed all entries, a named linear dimension
\* registered as name:start and name:end has its start at the solved position
\* of the point its start resolved to and its end at that of the point its
\* end resolved to
C29_PointEnds ==
    [][WritebackStep("DimensionMapping.map_back")
          => \A i \in 1..Len(dims) :
                ByBothEnds(i) => EndsFollow(sketch, dims'[i], input.dims[i])]_vars

(***************************************************************************)
(* SpecBind: the two dimension passes on a board where pass 2 projects.    *)
(* An orthogonal dimension with a distance suffix adds an axis, two fixed  *)
(* points at the origin and one millimetre along the axis; other           *)
(* dimensions, named, end on geometry points, on a position where only an  *)
(* axis point will be, or nowhere.                                         *)
(***************************************************************************)
At_P == from_xy_mm(1, 0)

Ends_AP == <<At_A, At_P>>

Ends_PA == <<At_P, At_A>>

Txt_a_h == <<"a", ",", "h">>

BindChoices ==
    {Orthogonal(Txt_dist, 1, At_A, At_B), Orthogonal(Txt_dist, 2, At_A, At_C),
     [Orthogonal(Txt_dist, 1, At_A, At_B) EXCEPT !.prefix = Txt_b]}
    \cup {KiDimension("aligned", Txt_a, sfx, <<>>, se[1], se[2]) :
            sfx \in {Txt_h, Txt_dist},
            se \in {Ends_AB, Ends_BA, Ends_AC, Ends_AP, Ends_PA, Ends_AZ}}
    \cup {KiDimension("leader", <<>>, <<>>, Txt_a_h, at, at) :
            at \in {At_A, At_P}}

InitBind ==
    /\ NoParse
    /\ shapes = DimBoard
    /\ pads = <<>>
    /\ dims \in UNION {[1..n -> BindChoices] : n \in 0..MaxDims}
    /\ input = Board(shapes, pads, dims)
    /\ tol = DefaultTolerance
    /\ sketch = MapShapes(Sketch_init, shapes, 1, <<>>).sk
    /\ shape_maps = MapShapes(Sketch_init, shapes, 1, <<>>).mapped
    /\ pad_maps = <<>>
    /\ registry = NoDimMap
    /\ pc = "shapes"
    /\ NoCalls

SpecBind == InitBind /\ [][NextDim]_vars

\* what pass 1 registered for dimension i when it came to it: the entries
\* the body of the naming loop writes for it
RegisteredFor(i) ==
    NameOne(pass2.before, dims[i], i,
            DimensionMapping(<<>>, <<>>, registry.all_points,
                             registry.edge_index),
            tol)

\* the entities of a dimension's entries: its line, or its point or points
BoundIn(r) ==
    IF r.edges # <<>> THEN <<r.edges[1].val.line>>
    ELSE [k \in 1..Len(r.points) |-> r.points[k].val.point]

\* the registry holds the entry, unless a later dimension took its key
Kept(d, e, i) ==
    /\ Holds(d, e.key, i)
    /\ DictGet(d, e.key).source = i => DictGet(d, e.key) = e.val

\* the entities the sketch got during pass 2
AddedByPass == (Len(pass2.before.ents) + 1)..Len(sketch.ents)

\* C30: pass 2, run on the registry of pass 1 with the same dimensions and
\* tolerance and no solve in between, applies every spec of a named dimension
\* to the line or the point(s) that pass 1 registered under its name for it,
\* whatever axis points pass 2 has added by then; and the registry holds
\* those entries
C30_SameBinding ==
    pass2.called =>
        /\ \A k \in 1..Len(pass2.calls) :
              _extract_name(dims[pass2.calls[k].dim]).some
                 => pass2.calls[k].target
                       = BoundIn(RegisteredFor(pass2.calls[k].dim))
        /\ \A i \in 1..Len(dims) :
              /\ \A k \in 1..Len(RegisteredFor(i).edges) :
                    Kept(registry.edges, RegisteredFor(i).edges[k], i)
              /\ \A k \in 1..Len(RegisteredFor(i).points) :
                    Kept(registry.points, RegisteredFor(i).points[k], i)

\* pass 2 projected a dimension, and then applied the suffix of a named
\* dimension one end of which lies where an axis point now is and no point
\* of the geometry was: to the one point registered for it
C30_Witness ==
    /\ pass2.called
    /\ \E k \in 1..Len(pass2.calls) :
          LET i == pass2.calls[k].dim
          IN  /\ _extract_name(dims[i]).some
              /\ pass2.calls[k].via = "apply_to_point"
              /\ Len(RegisteredFor(i).points) = 1
              /\ \E p \in AddedByPass :
                    /\ sketch.ents[p].kind = "point"
                    /\ _v2(sketch, p) \in {dims[i].start, dims[i].end}
              /\ \E j \in 1..(k - 1) :
                    pass2.calls[j].spec.kind = "DistanceProj"

====
